---- MODULE Spec2Model ----
(***************************************************************************)
(* Credential lifecycle and tiered metrics aggregation of the WHOOP gym    *)
(* leaderboard server (app.ts, crypto.ts, db.ts).                          *)
(*                                                                         *)
(* The store is the two SQLite tables of migrations/001_init.sql.  An      *)
(* aggregation pass is one run of the GET /api/leaderboard handler: it     *)
(* runs synchronously from one await to the next, so every action below    *)
(* is "a response arrives and the handler runs on to its next await".      *)
(* Times are milliseconds.  A stored timestamp is the text written by      *)
(* SQLite's datetime('now'), which is UTC wall time in whole seconds; it   *)
(* is represented by the instant that text names in UTC.                   *)
(***************************************************************************)
EXTENDS Integers, Sequences, FiniteSets, TLC

(***************************************************************************)
(* Bounds of the model.                                                    *)
(***************************************************************************)
MaxUsers == 2        \* provider accounts that may enroll
MaxMemberId == 2     \* AUTOINCREMENT ids handed out by the members table
MaxGen == 2          \* refresh-token generations the provider issues per account
MaxPasses == 3       \* aggregation passes started
MaxPlainLen == 2     \* longest plaintext handed to the vault on its own
MaxStarts == 2       \* calls of startTokenRefreshForSession
MaxTicks == 3        \* ticks of the refresh timers
MaxInFlight == 2     \* background refresh calls awaiting their response together
MaxApi == 2          \* calls of WhoopAuth.apiRequest on one page
MaxClientTicks == 2  \* ticks of the page's background refresh timer
MaxRequests == 3     \* requests the page sends to /api/auth/refresh
MaxSends == 3        \* upstream requests one apiRequest call may be seen to send
MaxNest == 6         \* levels of nesting of a payload handed to the Extractor
MaxStates == 2       \* OAuth states generateState hands out
MaxCallbacks == 2    \* requests of /auth/callback
MaxAdvances == 2     \* times the wall clock is advanced
ShortPasses == 2     \* passes of the specifications that run two passes
ShortAdvances == 1   \* clock advances of the specification over all local zones

Users == 1..MaxUsers
PassIds == {1, 2}    \* requests of /api/leaderboard that may be in progress together
FirstPass == {1}     \* the one request of the specifications whose passes do not overlap

Minute == 60 * 1000
ClockStart == 24 * 60 * Minute
ClockSteps == {5 * Minute, 55 * Minute}
\* local zones of the server process: America/New_York (EST), UTC, Europe/Paris (CET)
TimeZones == {0 - 300 * Minute, 0, 60 * Minute}

Infinity == 2000000000
todayStr == "today"

(***************************************************************************)
(* JavaScript values.  A JS number is held in hundredths (fixed point), so *)
(* 0.82 is 82, 1 is 100 and 55 is 5500; NaN is a value of its own.  A      *)
(* provider payload is a tagged tree: undefined, null, a number, an object *)
(* (a sequence of <<key, value>> entries in insertion order) or an array.  *)
(***************************************************************************)
Scale == 100
NULL == 0 - 1                \* JS null held in a number | null local, SQL NULL in a column
NaN == 0 - 2000000001

Undef == [t |-> "undef"]
JNull == [t |-> "null"]
Num(n) == [t |-> "num", v |-> n]
Obj(kv) == [t |-> "obj", kv |-> kv]
Arr(items) == [t |-> "arr", items |-> items]

\* o?.k : undefined when o is nullish or has no such property
Get(o, k) ==
  IF o.t = "obj" /\ \E i \in 1..Len(o.kv) : o.kv[i][1] = k
  THEN o.kv[CHOOSE i \in 1..Len(o.kv) : o.kv[i][1] = k][2]
  ELSE Undef

\* a[0]
First(o) == IF o.t = "arr" /\ Len(o.items) > 0 THEN o.items[1] ELSE Undef

\* a ?? b
Nullish(x) == x.t = "undef" \/ x.t = "null"
Coalesce(a, b) == IF Nullish(a) THEN b ELSE a

\* JS truthiness of a payload value (0 and NaN are falsy, objects and arrays truthy)
Truthy(x) ==
  CASE x.t = "undef" -> FALSE
    [] x.t = "null" -> FALSE
    [] x.t = "num" -> x.v # 0 /\ x.v # NaN
    [] OTHER -> TRUE

\* a || b and a && b
OrElse(a, b) == IF Truthy(a) THEN a ELSE b
AndThen(a, b) == IF Truthy(a) THEN b ELSE a

\* Number(x): null is 0, undefined and objects are NaN, [] is 0
ToNumber(x) ==
  CASE x.t = "num" -> x.v
    [] x.t = "null" -> 0
    [] x.t = "arr" -> IF Len(x.items) = 0 THEN 0
                      ELSE IF Len(x.items) = 1 /\ x.items[1].t = "num" THEN x.items[1].v
                      ELSE NaN
    [] OTHER -> NaN

IsFinite(n) == n # NaN

\* Math.round on hundredths (half up, as JS rounds towards +Infinity)
MathRound(n) == ((n + 50) \div Scale) * Scale

Max2(a, b) == IF a >= b THEN a ELSE b
SetMax(S) == CHOOSE x \in S : \A y \in S : y <= x

(***************************************************************************)
(* Recovery-Score Extractor.                                               *)
(***************************************************************************)
\* k.toLowerCase() over the keys the payloads use
ToLowerCase(k) ==
  CASE k = "Recovery" -> "recovery"
    [] k = "recoveryScore" -> "recoveryscore"
    [] k = "Score" -> "score"
    [] k = "cycleId" -> "cycleid"
    [] OTHER -> k

\* key.includes('recovery')
IncludesRecovery(key) ==
  key \in {"recovery", "recovery_score", "recoveryscore", "user_recovery"}

\* the [k, v] pairs of Object.entries(o); an array's keys are its indices
Entries(o) ==
  IF o.t = "obj" THEN o.kv
  ELSE [i \in 1..Len(o.items) |-> <<"index", o.items[i]>>]

\* a candidate taken as it stands, neither scaled nor range-checked
CandidateRaw(v) == {v}

\* v <= 1 ? v * 100 : v, then kept only inside 0..100
Candidate(v) ==
  LET val == IF v <= Scale THEN v * 100 ELSE v
  IN IF val >= 0 /\ val <= 100 * Scale THEN {val} ELSE {}

IsObject(o) == o.t = "obj" \/ o.t = "arr"

RECURSIVE visit(_, _)
visit(o, depth) ==
  IF ~IsObject(o) \/ depth < 0 THEN {}
  ELSE LET es == Entries(o)
           one(k, v) ==
             IF v.t = "num"
             THEN IF v.v = NaN THEN {}
                  ELSE (IF IncludesRecovery(ToLowerCase(k)) THEN Candidate(v.v) ELSE {})
                       \cup (IF ToLowerCase(k) = "score" THEN Candidate(v.v) ELSE {})
             ELSE IF IsObject(v) THEN visit(v, depth - 1)
             ELSE {}
       IN UNION {one(es[i][1], es[i][2]) : i \in 1..Len(es)}

extractRecoveryScore(obj, maxDepth) ==
  IF ~IsObject(obj) \/ maxDepth < 0 THEN NULL
  ELSE LET candidates == visit(obj, maxDepth)
       IN IF candidates = {} THEN NULL ELSE SetMax(candidates)

DefaultMaxDepth == 4

(***************************************************************************)
(* What the leaderboard handler computes from each provider payload.       *)
(***************************************************************************)
\* Number(x) || 0
NumberOr0(x) == LET n == ToNumber(x) IN IF n = NaN THEN 0 ELSE n

\* Math.max(best ?? x, x)
BestOf(best, x) == IF best = NULL THEN x ELSE Max2(best, x)

\* (resp?.records && resp.records[0]) || (Array.isArray(resp) ? resp[0] : resp)
FirstRecord(resp) ==
  OrElse(AndThen(Get(resp, "records"), First(Get(resp, "records"))),
         IF resp.t = "arr" THEN First(resp) ELSE resp)

\* the loop body over one sleep record: acc is (totalMinutes, bestPerf, bestConsistency)
SleepRecord(acc, r) ==
  LET score == OrElse(Get(r, "score"), Get(Get(r, "sleep"), "score"))
      perf == ToNumber(Get(score, "sleep_performance_percentage"))
      consistency == ToNumber(Get(score, "sleep_consistency_percentage"))
      deep == NumberOr0(Get(score, "slow_wave_sleep_minutes"))
      rem == NumberOr0(Get(score, "rem_sleep_minutes"))
      light == NumberOr0(Get(score, "light_sleep_minutes"))
      minutes ==
        IF deep + rem + light > 0 THEN deep + rem + light
        ELSE IF Get(score, "in_bed_duration_minutes").t = "num"
        THEN ToNumber(Get(score, "in_bed_duration_minutes"))
             - NumberOr0(Get(score, "awake_time_minutes"))
        ELSE IF Truthy(Get(r, "start")) /\ Truthy(Get(r, "end"))
        THEN Max2(0, MathRound((ToNumber(Get(r, "end")) - ToNumber(Get(r, "start"))) \div 60000))
        ELSE 0
  IN [totalMinutes |-> acc.totalMinutes + Max2(0, minutes),
      bestPerf |-> IF IsFinite(perf) THEN BestOf(acc.bestPerf, perf) ELSE acc.bestPerf,
      bestConsistency |-> IF IsFinite(consistency)
                          THEN BestOf(acc.bestConsistency, consistency)
                          ELSE acc.bestConsistency]

RECURSIVE SleepLoop(_, _, _)
SleepLoop(records, i, acc) ==
  IF i > Len(records) THEN acc
  ELSE SleepLoop(records, i + 1, SleepRecord(acc, records[i]))

\* the sleep block: threw when for..of meets a truthy records value that is no array
SleepFromPayload(sleepResp) ==
  LET records == OrElse(Get(sleepResp, "records"),
                        IF sleepResp.t = "arr" THEN sleepResp ELSE Arr(<<>>))
  IN IF records.t # "arr"
     THEN [threw |-> TRUE, sleepTotalSec |-> NULL, sleepPerfPct |-> NULL,
           sleepConsistencyPct |-> NULL]
     ELSE LET acc == SleepLoop(records.items, 1,
                       [totalMinutes |-> 0, bestPerf |-> NULL, bestConsistency |-> NULL])
          IN [threw |-> FALSE,
              sleepTotalSec |-> IF acc.totalMinutes > 0 THEN acc.totalMinutes * 60 ELSE NULL,
              sleepPerfPct |-> IF acc.bestPerf # NULL THEN MathRound(acc.bestPerf) ELSE NULL,
              sleepConsistencyPct |-> IF acc.bestConsistency # NULL
                                      THEN MathRound(acc.bestConsistency) ELSE NULL]

\* Number(o?.score ?? o?.recovery_score ?? o?.recovery?.score)
ScoreOf(o) ==
  ToNumber(Coalesce(Coalesce(Get(o, "score"), Get(o, "recovery_score")),
                    Get(Get(o, "recovery"), "score")))

\* Number(c?.score?.recovery_score ?? c?.recovery_score ?? c?.recovery?.score)
RecFromCycle(c) ==
  ToNumber(Coalesce(Coalesce(Get(Get(c, "score"), "recovery_score"), Get(c, "recovery_score")),
                    Get(Get(c, "recovery"), "score")))

\* c?.id ?? c?.cycle_id ?? c?.cycleId
CycleIdOf(c) == Coalesce(Coalesce(Get(c, "id"), Get(c, "cycle_id")), Get(c, "cycleId"))

\* Number(c?.score?.strain ?? c?.strain ?? c?.score_strain ?? c?.cycle?.strain)
StrainOf(c) ==
  ToNumber(Coalesce(Coalesce(Coalesce(Get(Get(c, "score"), "strain"), Get(c, "strain")),
                             Get(c, "score_strain")),
                    Get(Get(c, "cycle"), "strain")))

\* if (extracted <= 1) extracted = extracted * 100
TimesHundredIfFraction(x) == IF x <= Scale THEN x * 100 ELSE x

\* the score of a recovery object: the direct field when finite, else the Extractor;
\* NULL when neither gives a number
RecoveryFromObject(r) ==
  LET scoreA == ScoreOf(r)
      extracted == IF IsFinite(scoreA) THEN scoreA
                   ELSE extractRecoveryScore(r, DefaultMaxDepth)
  IN IF extracted # NULL THEN TimesHundredIfFraction(extracted) ELSE NULL

VARIABLES
  now,            \* Date.now(), UTC milliseconds
  tz,             \* offset of the process's local time zone from UTC, ms
  advances,       \* clock advances so far
  members,        \* table members
  nextMemberId,   \* AUTOINCREMENT counter of members
  daily_metrics,  \* table daily_metrics
  grant,          \* provider side: per account, the live refresh-token generation
  pass,           \* per request of /api/leaderboard: the handler's locals
  passCount,      \* passes started so far
  history,        \* what earlier passes did, kept for the properties
  env,            \* process.env.ENCRYPTION_KEY
  listening,      \* app.listen has been called: requests are accepted
  vault,          \* a caller of the Secret Vault: its plaintext, payload and result
  console,        \* the token texts the server has written to its console
  call,           \* a call of a helper function on its own: its argument and result
  refresher,      \* the Background Session Refresher: registry, timers, calls in flight
  client,         \* a page with its WhoopAuth instance and the origin's localStorage
  oauth           \* the OAuth flow: stored sessions, callbacks in progress, responses

\* the process configuration, the callers of the vault and of the helpers, and the
\* session refresher, which no request handler of the leaderboard writes
host_less_oauth == <<env, listening, vault, call, refresher, client>>
host == <<host_less_oauth, oauth>>

\* what the request handlers and the provider read and write
server ==
  <<console, now, tz, advances, members, nextMemberId, daily_metrics, grant, pass, passCount,
    history>>

vars ==
  <<now, tz, advances, members, nextMemberId, daily_metrics, grant, pass, passCount, history,
    console, host>>


(***************************************************************************)
(* Secret Vault (crypto.ts).  Bytes are 0..3.  A base64 text is the        *)
(* sequence of its characters, one per byte; a payload "iv.tag.ct" is the  *)
(* sequence of its dot-separated parts.  The cipher is a keyed stream      *)
(* cipher and the tag an ideal MAC: it determines key, iv and ciphertext.  *)
(***************************************************************************)
Base == 4            \* number of byte values
KeyBytes == 32

\* a value of ENCRYPTION_KEY: unset, or a base64 text that decodes to `bytes` bytes
\* of key material k
NoKey == [set |-> FALSE, bytes |-> 0, k |-> 0]
KeyOf(bytes, k) == [set |-> TRUE, bytes |-> bytes, k |-> k]
GoodKey == KeyOf(KeyBytes, 1)

getKey(b64) ==
  IF ~b64.set \/ b64.bytes = 0 THEN [ok |-> FALSE, key |-> 0, error |-> "ENCRYPTION_KEY is not set"]
  ELSE IF b64.bytes # KeyBytes
  THEN [ok |-> FALSE, key |-> 0, error |-> "ENCRYPTION_KEY must be a 32-byte base64 string"]
  ELSE [ok |-> TRUE, key |-> b64.k, error |-> ""]

\* buf.toString('base64') and Buffer.from(text, 'base64')
ToBase64(bytes) == [i \in 1..Len(bytes) |-> bytes[i] + 65]
FromBase64(text) == [i \in 1..Len(text) |-> text[i] - 65]

\* cipher.update(plainText) and decipher.update(ciphertext) under key and iv
Cipher(key, iv, plain) == [i \in 1..Len(plain) |-> (plain[i] + key + iv[1] + i) % Base]
Decipher(key, iv, ct) ==
  [i \in 1..Len(ct) |-> (ct[i] + Base - ((key + iv[1] + i) % Base)) % Base]

\* cipher.getAuthTag()
AuthTag(key, iv, ct) == <<key>> \o iv \o ct

\* encryptSecret with the iv that crypto.randomBytes(12) returned
encryptSecret(plainText, iv) ==
  LET k == getKey(env)
      ciphertext == Cipher(k.key, iv, plainText)
      tag == AuthTag(k.key, iv, ciphertext)
  IN IF ~k.ok THEN [ok |-> FALSE, payload |-> <<>>, error |-> k.error]
     ELSE [ok |-> TRUE,
           payload |-> <<ToBase64(iv), ToBase64(tag), ToBase64(ciphertext)>>,
           error |-> ""]

\* a decryptSecret that verifies nothing: it deciphers what it is given, and
\* takes the tag part for the text where there is no ciphertext part
DecryptUnverified(payload) ==
  LET k == getKey(env)
      iv == IF Len(payload) >= 1 THEN FromBase64(payload[1]) ELSE <<0>>
      tag == IF Len(payload) >= 2 THEN FromBase64(payload[2]) ELSE <<0, 0>>
      ciphertext == IF Len(payload) >= 3 THEN FromBase64(payload[3]) ELSE <<>>
  IN [ok |-> TRUE,
      text |-> IF ciphertext = <<>> THEN tag ELSE Decipher(k.key, iv, ciphertext),
      error |-> ""]

\* payload.split('.') destructured into three: a missing part is undefined, and
\* undefined and '' are both falsy
Part(payload, n) == IF n <= Len(payload) THEN payload[n] ELSE <<>>

decryptSecret(payload) ==
  LET ivB64 == Part(payload, 1)
      tagB64 == Part(payload, 2)
      ctB64 == Part(payload, 3)
      k == getKey(env)
      iv == FromBase64(ivB64)
      tag == FromBase64(tagB64)
      ciphertext == FromBase64(ctB64)
  IN IF ivB64 = <<>> \/ tagB64 = <<>> \/ ctB64 = <<>>
     THEN [ok |-> FALSE, text |-> <<>>, error |-> "Invalid encrypted payload format"]
     ELSE IF ~k.ok THEN [ok |-> FALSE, text |-> <<>>, error |-> k.error]
     ELSE IF tag # AuthTag(k.key, iv, ciphertext)
     THEN [ok |-> FALSE, text |-> <<>>, error |-> "Unsupported state or unable to authenticate data"]
     ELSE [ok |-> TRUE, text |-> Decipher(k.key, iv, ciphertext), error |-> ""]

\* a refresh token as the text the provider hands out, and back
TokenText(t) == <<t.user, t.gen>>
ParseToken(text) == [user |-> text[1], gen |-> text[2]]

\* the iv drawn for the secrets the server stores (no behaviour depends on it)
StoreIvs == {<<1>>}

(***************************************************************************)
(* Clock and timestamps.                                                   *)
(***************************************************************************)
staleStrainMs == 5 * 60 * 1000
staleHourlyMs == 60 * 60 * 1000

\* datetime('now'): UTC, whole seconds, written without a zone designator
SqlNow == (now \div 1000) * 1000

\* new Date(text).getTime() of a 'YYYY-MM-DD HH:MM:SS' text: a date-time text without
\* a zone designator is read as local time, so the instant is the text's wall time
\* minus the local offset
ParseDate(text) == text - tz

(***************************************************************************)
(* Member/Metrics Store (migrations/001_init.sql).                         *)
(***************************************************************************)
NoRow == [found |-> FALSE, sleep_total_sec |-> NULL, sleep_perf_pct |-> NULL,
          recovery_score |-> NULL, strain_score |-> NULL, updated_at |-> NULL]

\* SELECT sleep_total_sec, sleep_perf_pct, recovery_score, strain_score, updated_at
\*   FROM daily_metrics WHERE member_id = ? AND date = ?
SelectCached(dm, mid, date) ==
  LET rows == {r \in dm : r.member_id = mid /\ r.date = date}
  IN IF rows = {} THEN NoRow
     ELSE LET r == CHOOSE r \in rows : TRUE
          IN [found |-> TRUE, sleep_total_sec |-> r.sleep_total_sec,
              sleep_perf_pct |-> r.sleep_perf_pct, recovery_score |-> r.recovery_score,
              strain_score |-> r.strain_score, updated_at |-> r.updated_at]

\* SELECT id, whoop_user_id, display_name, avatar_url, refresh_token_enc FROM members
\* (rowid order)
RECURSIVE SelectMembers(_)
SelectMembers(mem) ==
  IF mem = {} THEN <<>>
  ELSE LET m == CHOOSE x \in mem : \A y \in mem : x.id <= y.id
       IN <<[id |-> m.id, whoop_user_id |-> m.whoop_user_id, display_name |-> m.display_name,
             refresh_token_enc |-> m.refresh_token_enc]>> \o SelectMembers(mem \ {m})

\* DELETE FROM members WHERE whoop_user_id = ?
deleteMemberByWhoopUserId(mem, whoopUserId) == {m \in mem : m.whoop_user_id # whoopUserId}

\* DELETE FROM members WHERE id = ?
DeleteMemberById(mem, id) == {m \in mem : m.id # id}

\* the store with foreign keys not enforced: rows outlive their member
CascadeOff(dm, mem) == dm

\* FOREIGN KEY(member_id) REFERENCES members(id) ON DELETE CASCADE, foreign_keys = ON
Cascade(dm, mem) == {r \in dm : \E m \in mem : m.id = r.member_id}

\* an UPDATE that binds the incoming value whether or not it is NULL
CoalesceOff(incoming, column) == incoming

\* COALESCE(?, column)
COALESCE(incoming, column) == IF incoming # NULL THEN incoming ELSE column

\* a rotation that is only noted, the new secret not written
SecretNotPersisted(mem, id, enc) ==
  {IF m.id = id THEN [m EXCEPT !.last_refreshed_at = SqlNow] ELSE m : m \in mem}

\* UPDATE members SET refresh_token_enc = ?, last_refreshed_at = datetime('now') WHERE id = ?
UpdateMemberSecret(mem, id, enc) ==
  {IF m.id = id THEN [m EXCEPT !.refresh_token_enc = enc, !.last_refreshed_at = SqlNow]
   ELSE m : m \in mem}

\* UPDATE members SET last_refreshed_at = datetime('now') WHERE id = ?
TouchMember(mem, id) ==
  {IF m.id = id THEN [m EXCEPT !.last_refreshed_at = SqlNow] ELSE m : m \in mem}

(***************************************************************************)
(* Failure classification of the leaderboard handler's catch block.  An    *)
(* error carries the response status (0 when there was no response) and    *)
(* the error code of a JSON body ("" when the body is no object).          *)
(***************************************************************************)
isInvalidGrant(err) ==
  err.status = 400 \/ err.status = 401
  \/ err.error = "invalid_grant" \/ err.error = "invalid_request"

NoResponse == [status |-> 0, error |-> ""]

(***************************************************************************)
(* The handler of GET /api/leaderboard (the Tiered Aggregator).  A pass    *)
(* record holds the handler's locals; failed, tokenErr and obs are history *)
(* kept for the properties: the requests that failed, the error of a       *)
(* failed token refresh, and what the cache check of each member saw.  The *)
(* request in flight is the one pc names, for the member at index i.       *)
(* sleep_consistency_pct is not among the columns the cache SELECT reads,  *)
(* so the cached value of it is always undefined.                          *)
(***************************************************************************)
NoToken == [user |-> 0, gen |-> 0]

IdlePass ==
  [pc |-> "idle", forceArg |-> "", members |-> <<>>, i |-> 1,
   cached |-> NoRow, needStrainFetch |-> FALSE, needHourlyFetch |-> FALSE,
   refreshToken |-> NoToken,
   sleepTotalSec |-> NULL, sleepPerfPct |-> NULL, sleepConsistencyPct |-> NULL,
   recoveryScore |-> NULL, strainScore |-> NULL,
   sleepBoard |-> <<>>, recoveryBoard |-> <<>>, strainBoard |-> <<>>,
   failed |-> {}, tokenErr |-> {}, obs |-> {}]

ForceArgs == {"", "all", "strain", "sleep", "recovery"}

\* const updated = cached?.updated_at ? new Date(cached.updated_at).getTime() : 0;
\* const ageMs = updated ? (Date.now() - updated) : Number.POSITIVE_INFINITY;
ageMs(cached) ==
  LET updated == IF cached.found THEN ParseDate(cached.updated_at) ELSE 0
  IN IF updated # 0 THEN now - updated ELSE Infinity

needStrainFetch(forceArg, age) ==
  IF forceArg = "all" \/ forceArg = "strain" THEN TRUE ELSE age > staleStrainMs

needHourlyFetch(forceArg, age) ==
  IF forceArg = "all" \/ forceArg = "sleep" \/ forceArg = "recovery" THEN TRUE
  ELSE age > staleHourlyMs

\* boards.sort((a, b) => b.value - a.value), a stable sort
InsertDesc(sorted, e) ==
  LET k == Cardinality({j \in 1..Len(sorted) : sorted[j].value >= e.value})
  IN SubSeq(sorted, 1, k) \o <<e>> \o SubSeq(sorted, k + 1, Len(sorted))

\* a response that returns the boards in the order of the pushes
Unsorted(board) == board

RECURSIVE SortDesc(_)
SortDesc(board) ==
  IF board = <<>> THEN <<>>
  ELSE InsertDesc(SortDesc(SubSeq(board, 1, Len(board) - 1)), board[Len(board)])

\* the cached values taken over into the locals
UseCacheAll(pr) ==
  [pr EXCEPT !.sleepTotalSec = pr.cached.sleep_total_sec,
             !.sleepPerfPct = pr.cached.sleep_perf_pct,
             !.recoveryScore = pr.cached.recovery_score,
             !.strainScore = pr.cached.strain_score]

\* a catch block that gives up on the members still to come
CatchAbort(pr) == [pr EXCEPT !.i = Len(pr.members)]

\* the catch block's "Fallback to cached values if available"
CatchFallback(pr) ==
  IF pr.cached.found
  THEN [pr EXCEPT !.sleepTotalSec = pr.cached.sleep_total_sec,
                  !.sleepPerfPct = pr.cached.sleep_perf_pct,
                  !.sleepConsistencyPct = NULL,
                  !.recoveryScore = pr.cached.recovery_score,
                  !.strainScore = pr.cached.strain_score]
  ELSE pr

\* the three board pushes that end a member's iteration
PushBoards(pr) ==
  LET m == pr.members[pr.i]
  IN [pr EXCEPT
        !.sleepBoard = IF pr.sleepPerfPct # NULL
                       THEN Append(@, [name |-> m.display_name, value |-> pr.sleepPerfPct,
                                       seconds |-> pr.sleepTotalSec,
                                       consistency |-> pr.sleepConsistencyPct])
                       ELSE @,
        !.recoveryBoard = IF pr.recoveryScore # NULL
                          THEN Append(@, [name |-> m.display_name, value |-> pr.recoveryScore])
                          ELSE @,
        !.strainBoard = IF pr.strainScore # NULL
                        THEN Append(@, [name |-> m.display_name, value |-> pr.strainScore])
                        ELSE @,
        !.i = pr.i + 1]

\* the handler from the top of the member loop to its next await (the token
\* refresh of a member whose cache is stale) or to the response
RECURSIVE RunLoop(_, _)
RunLoop(pr, dm) ==
  IF pr.i > Len(pr.members)
  THEN [pr EXCEPT !.pc = "done",
                  !.sleepBoard = SortDesc(pr.sleepBoard),
                  !.recoveryBoard = SortDesc(pr.recoveryBoard),
                  !.strainBoard = SortDesc(pr.strainBoard)]
  ELSE
    LET m == pr.members[pr.i]
        cached == SelectCached(dm, m.id, todayStr)
        age == ageMs(cached)
        nS == needStrainFetch(pr.forceArg, age)
        nH == needHourlyFetch(pr.forceArg, age)
        p1 == [pr EXCEPT !.cached = cached, !.needStrainFetch = nS, !.needHourlyFetch = nH,
                         !.sleepTotalSec = NULL, !.sleepPerfPct = NULL,
                         !.sleepConsistencyPct = NULL, !.recoveryScore = NULL,
                         !.strainScore = NULL,
                         !.obs = @ \cup {[mid |-> m.id,
                                          realAge |-> IF cached.found
                                                      THEN now - cached.updated_at
                                                      ELSE Infinity,
                                          usedCache |-> (~nS /\ cached.found),
                                          needHourlyFetch |-> nH]}]
        secret == decryptSecret(m.refresh_token_enc)
    IN IF ~nS /\ cached.found
       THEN RunLoop(PushBoards(UseCacheAll(p1)), dm)
       ELSE IF ~secret.ok
       THEN RunLoop(PushBoards(CatchFallback(p1)), dm)
       ELSE [p1 EXCEPT !.pc = "refresh", !.refreshToken = ParseToken(secret.text)]

\* the stages after the token refresh, each up to its await: the result's pc names
\* the request awaited, or is "upsert" when the member's fetches are over
EnterStrain(pr) ==
  IF pr.needStrainFetch
  THEN [pr EXCEPT !.pc = "strain"]
  ELSE [(IF pr.cached.found THEN [pr EXCEPT !.strainScore = pr.cached.strain_score] ELSE pr)
          EXCEPT !.pc = "upsert"]

EnterRecovery(pr) ==
  IF pr.needHourlyFetch
  THEN [pr EXCEPT !.pc = "recovery"]
  ELSE EnterStrain(IF pr.cached.found
                   THEN [pr EXCEPT !.recoveryScore = pr.cached.recovery_score] ELSE pr)

EnterSleep(pr) ==
  IF pr.needHourlyFetch
  THEN [pr EXCEPT !.pc = "sleep"]
  ELSE EnterRecovery(IF pr.cached.found
                     THEN [pr EXCEPT !.sleepTotalSec = pr.cached.sleep_total_sec,
                                     !.sleepPerfPct = pr.cached.sleep_perf_pct,
                                     !.sleepConsistencyPct = NULL]
                     ELSE pr)

\* "If still null, bind recovery to today's cycle explicitly"
AfterRecoveryList(pr) ==
  IF pr.recoveryScore = NULL
  THEN [pr EXCEPT !.pc = "recovery_cycle"]
  ELSE EnterStrain(pr)

\* an upsert that inserts whenever the cache check before the requests saw no
\* row, into a table with no UNIQUE(member_id, date)
UpsertUnchecked(pr, dm, mem) ==
  [ok |-> TRUE,
   dm |-> IF pr.cached.found
          THEN dm
          ELSE dm \cup {[member_id |-> pr.members[pr.i].id, date |-> todayStr,
                          sleep_total_sec |-> pr.sleepTotalSec,
                          sleep_perf_pct |-> pr.sleepPerfPct,
                          sleep_consistency_pct |-> pr.sleepConsistencyPct,
                          recovery_score |-> pr.recoveryScore,
                          strain_score |-> pr.strainScore,
                          updated_at |-> SqlNow]}]

\* "Upsert daily_metrics": the row is looked up and then updated or inserted, with
\* no await in between.  ok is FALSE when the INSERT violates the foreign key.
UpsertDailyMetric(pr, dm, mem) ==
  LET m == pr.members[pr.i]
      exists == {r \in dm : r.member_id = m.id /\ r.date = todayStr}
  IN IF exists # {}
     THEN [ok |-> TRUE,
           dm |-> {IF r \in exists
                   THEN [r EXCEPT
                           !.sleep_total_sec = COALESCE(pr.sleepTotalSec, @),
                           !.sleep_perf_pct = COALESCE(pr.sleepPerfPct, @),
                           !.sleep_consistency_pct = COALESCE(pr.sleepConsistencyPct, @),
                           !.recovery_score = COALESCE(pr.recoveryScore, @),
                           !.strain_score = COALESCE(pr.strainScore, @),
                           !.updated_at = SqlNow]
                   ELSE r : r \in dm}]
     ELSE IF \E x \in mem : x.id = m.id
     THEN [ok |-> TRUE,
           dm |-> dm \cup {[member_id |-> m.id, date |-> todayStr,
                            sleep_total_sec |-> pr.sleepTotalSec,
                            sleep_perf_pct |-> pr.sleepPerfPct,
                            sleep_consistency_pct |-> pr.sleepConsistencyPct,
                            recovery_score |-> pr.recoveryScore,
                            strain_score |-> pr.strainScore,
                            updated_at |-> SqlNow]}]
     ELSE [ok |-> FALSE, dm |-> dm]

\* the handler from a response to its next await: when the member's fetches are
\* over, the upsert, the board pushes and the loop on to the next await
Settle(pr, dm, mem) ==
  IF pr.pc # "upsert" THEN [pr |-> pr, dm |-> dm]
  ELSE LET u == UpsertDailyMetric(pr, dm, mem)
       IN IF u.ok
          THEN [pr |-> RunLoop(PushBoards(pr), u.dm), dm |-> u.dm]
          ELSE [pr |-> RunLoop(PushBoards(CatchFallback(pr)), dm), dm |-> dm]

(***************************************************************************)
(* The provider, as the handler sees it.  A refresh token names its        *)
(* account and generation; the provider honours the account's live         *)
(* generation only, and a rotation makes the next generation the live one. *)
(***************************************************************************)
GrantValid(t) == t.user \in Users /\ grant[t.user].live /\ grant[t.user].gen = t.gen

\* the credential-rejected response of the token endpoint
InvalidGrant == [status |-> 400, error |-> "invalid_grant"]

\* failures of the token endpoint that say nothing about the grant: no response,
\* a 5xx, and a 401 whose body names another error
TransientRefreshErrors ==
  {NoResponse, [status |-> 503, error |-> ""], [status |-> 401, error |-> "invalid_client"]}

\* failures of a resource read
ResourceErrors ==
  {NoResponse, [status |-> 400, error |-> ""], [status |-> 401, error |-> ""],
   [status |-> 500, error |-> ""]}

Records(items) == Obj(<< <<"records", Arr(items)>> >>)

\* what the provider holds for account u on the reference day: sleep performance
\* (hundredths of a percent), recovery (whole percent) and strain (hundredths),
\* all within the provider's ranges for every account of the model
SleepPerfOf(u) == (60 + 10 * u) * Scale + 40
RecoveryOf(u) == 45 + 15 * u
StrainOf100(u) == 6 * u * Scale - 280

SleepRec(perf) ==
  Obj(<< <<"start", Num(100)>>, <<"end", Num(100 + 60 * 60000 * Scale)>>,
         <<"score", Obj(<< <<"sleep_performance_percentage", perf>>,
                           <<"sleep_consistency_percentage", Num(60 * Scale)>> >>)>> >>)

\* history across passes: per member id the time the sleep/recovery class was last
\* requested from the provider (0: never), and the <<member id, request>> pairs
\* that failed in the pass before
NoHistory == [lastHourly |-> [id \in 1..MaxMemberId |-> 0], prevFailed |-> {}]

(***************************************************************************)
(* Background Session Refresher.  activeSessions maps a session id to its  *)
(* handle (NoHandle: no entry).  timers holds the ids of the intervals     *)
(* that setInterval returned and clearInterval has not cleared; closures   *)
(* holds, per interval, the sessionId and the refreshToken variable its    *)
(* callback closes over; inflight holds the refreshAccessToken calls that  *)
(* have not been answered; raised tells that a function of the refresher   *)
(* threw.  phase is history kept for the properties: "never" before the    *)
(* first start of the session, "running" after a start, "stopped" after a  *)
(* caller's stop, "failed" after a failed tick; a call in flight records   *)
(* the phase it was started in.                                            *)
(***************************************************************************)
SessionIds == {1}
TimerIds == 1..MaxStarts
StartTokens == {10, 20}     \* refresh tokens a caller hands to start
ExpiresIn == {0, 3600}      \* expires_in of a token response (0: absent)

NoHandle == [interval |-> 0, accessToken |-> NULL, refreshToken |-> 0, tokenExpiry |-> NULL]

NoRefresher ==
  [activeSessions |-> [sid \in SessionIds |-> NoHandle],
   timers |-> {},
   closures |-> [t \in TimerIds |-> [sessionId |-> 0, refreshToken |-> 0]],
   inflight |-> {},
   nextTimer |-> 1,
   ticks |-> 0,
   raised |-> FALSE,
   phase |-> [sid \in SessionIds |-> "never"]]

\* activeSessions.has(sessionId)
Has(r, sessionId) == r.activeSessions[sessionId] # NoHandle

\* a stop without the has() guard: reading .interval of a missing entry throws
StopUnguarded(r, sessionId) ==
  IF Has(r, sessionId)
  THEN [r EXCEPT !.timers = @ \ {r.activeSessions[sessionId].interval},
                 !.activeSessions[sessionId] = NoHandle]
  ELSE [r EXCEPT !.raised = TRUE]

\* stopTokenRefreshForSession(sessionId)
stopTokenRefreshForSession(r, sessionId) ==
  IF Has(r, sessionId)
  THEN [r EXCEPT !.timers = @ \ {r.activeSessions[sessionId].interval},
                 !.activeSessions[sessionId] = NoHandle]
  ELSE r

\* startTokenRefreshForSession(sessionId, refreshToken)
startTokenRefreshForSession(r, sessionId, refreshToken) ==
  LET cleared == IF Has(r, sessionId)
                 THEN r.timers \ {r.activeSessions[sessionId].interval}
                 ELSE r.timers
      refreshInterval == r.nextTimer
  IN [r EXCEPT !.timers = cleared \cup {refreshInterval},
               !.closures[refreshInterval] =
                  [sessionId |-> sessionId, refreshToken |-> refreshToken],
               !.activeSessions[sessionId] =
                  [interval |-> refreshInterval, accessToken |-> NULL,
                   refreshToken |-> refreshToken, tokenExpiry |-> NULL],
               !.nextTimer = refreshInterval + 1]

(***************************************************************************)
(* WhoopAuth, the page's authentication client.  storage holds the three   *)
(* localStorage items (0: the item is absent).  timers holds the live      *)
(* window intervals, requests the POSTs to /api/auth/refresh that have not *)
(* been answered, waiters the callers awaiting the promise of a request    *)
(* (caller 0: a tick of the background timer; caller a > 0: apiRequest a). *)
(* page is "active", "leaving" once window.location.href has been set and  *)
(* the navigation has not yet replaced the document, and "gone" after.     *)
(***************************************************************************)
ApiIds == 1..MaxApi
TickCaller == 0
RefreshBuffer == 300000     \* isTokenExpired: 5 minutes buffer

NoTokens == [access_token |-> 0, refresh_token |-> 0, expiry |-> 0]

IdleApi == [pc |-> "idle", retried |-> FALSE, sends |-> 0, refreshes |-> 0, status |-> 0]

NoClient ==
  [storage |-> NoTokens,
   tokenRefreshPromise |-> 0,
   refreshIntervalId |-> 0,
   timers |-> {},
   nextTimer |-> 1,
   nextRequest |-> 1,
   requests |-> {},
   waiters |-> {},
   api |-> [a \in ApiIds |-> IdleApi],
   logout |-> "idle",
   page |-> "active",
   inited |-> FALSE,
   ticks |-> 0]

\* setTokens; expiresAt.toString() throws when the response carried no expires_at,
\* after the first two items have been written
setTokens(c, accessToken, refreshToken, expiresAt) ==
  IF expiresAt = NULL
  THEN [c |-> [c EXCEPT !.storage.access_token = accessToken,
                        !.storage.refresh_token = refreshToken],
        thrown |-> TRUE]
  ELSE [c |-> [c EXCEPT !.storage = [access_token |-> accessToken,
                                     refresh_token |-> refreshToken,
                                     expiry |-> expiresAt]],
        thrown |-> FALSE]

clearTokens(c) == [c EXCEPT !.storage = NoTokens]

isAuthenticated(c) == c.storage.access_token # 0

isTokenExpired(c) ==
  IF c.storage.expiry = 0 THEN TRUE ELSE now > c.storage.expiry - RefreshBuffer

redirectToLogin(c) == [c EXCEPT !.page = IF @ = "active" THEN "leaving" ELSE @]

stopBackgroundRefresh(c) ==
  IF c.refreshIntervalId # 0
  THEN [c EXCEPT !.timers = @ \ {c.refreshIntervalId}, !.refreshIntervalId = 0]
  ELSE c

startBackgroundRefresh(c) ==
  LET c1 == stopBackgroundRefresh(c)
  IN [c1 EXCEPT !.timers = @ \cup {c1.nextTimer},
                !.refreshIntervalId = c1.nextTimer,
                !.nextTimer = @ + 1]

\* a refreshToken() that always starts a request of its own
RefreshUnguarded(c, caller) ==
  IF c.storage.refresh_token = 0
  THEN [c |-> c, thrown |-> TRUE]
  ELSE [c |-> [c EXCEPT !.tokenRefreshPromise = c.nextRequest,
                        !.requests = @ \cup {[id |-> c.nextRequest,
                                              token |-> c.storage.refresh_token]},
                        !.waiters = @ \cup {<<caller, c.nextRequest>>},
                        !.nextRequest = @ + 1],
        thrown |-> FALSE]

\* refreshToken() up to its await: the caller joins the promise in progress, or
\* throws for want of a refresh token, or sends the request and waits for it
clientRefreshToken(c, caller) ==
  IF c.tokenRefreshPromise # 0
  THEN [c |-> [c EXCEPT !.waiters = @ \cup {<<caller, c.tokenRefreshPromise>>}],
        thrown |-> FALSE]
  ELSE IF c.storage.refresh_token = 0
  THEN [c |-> c, thrown |-> TRUE]
  ELSE [c |-> [c EXCEPT !.tokenRefreshPromise = c.nextRequest,
                        !.requests = @ \cup {[id |-> c.nextRequest,
                                              token |-> c.storage.refresh_token]},
                        !.waiters = @ \cup {<<caller, c.nextRequest>>},
                        !.nextRequest = @ + 1],
        thrown |-> FALSE]

(***************************************************************************)
(* The OAuth flow.  store is the session store: per browser session its    *)
(* oauthState (NULL: the session holds none).  A request works on its own  *)
(* copy of the session, read from the store when the request arrives and   *)
(* written back when its response ends if the handler changed it           *)
(* (express-session, resave: false).  A state text is the sequence of its  *)
(* segments between '|' (<<>>: no text), segment 0 the empty text.  issued and consumed *)
(* are history kept for the properties: the state the session's latest     *)
(* login handed out, and the states whose token exchange has succeeded.    *)
(***************************************************************************)
WebSessions == {1, 2}
CallbackIds == 1..MaxCallbacks
Purposes == {"personal", "enroll"}

\* the state query parameter of a callback: absent, empty, a bare state, or a
\* state with a purpose
StateParams ==
  {<<>>, <<0>>} \cup {<<b>> : b \in 1..MaxStates + 1}
    \cup {<<b, purpose>> : b \in 1..MaxStates + 1, purpose \in Purposes}

IdleCallback ==
  [pc |-> "idle", sid |-> 0, state |-> <<>>, code |-> 0, error |-> FALSE,
   loaded |-> NULL, session |-> NULL, issued |-> NULL, reused |-> FALSE,
   exchanged |-> FALSE, token |-> NoToken, tokensSent |-> FALSE, wrote |-> FALSE,
   status |-> 0, body |-> ""]

NoOAuth ==
  [store |-> [sid \in WebSessions |-> NULL],
   nextState |-> 1,
   callback |-> [k \in CallbackIds |-> IdleCallback],
   issued |-> [sid \in WebSessions |-> NULL],
   consumed |-> [sid \in WebSessions |-> {}]]

\* String(state || '').split('|')[0]
ReturnedState(state) == IF state = <<>> THEN 0 ELSE state[1]

\* const [, purpose = 'personal'] = stateStr.split('|')
PurposeOf(state) ==
  IF Len(state) >= 2 THEN state[2] ELSE "personal"

\* a state check that only looks at a state that was sent
StateMismatchLoose(returnedState, oauthState) ==
  returnedState # 0 /\ returnedState # oauthState

\* returnedState !== req.session.oauthState
StateMismatch(returnedState, oauthState) == returnedState # oauthState

\* the response ends: the request's session is written back if it was changed
SaveSession(o, k) ==
  IF o.callback[k].session # o.callback[k].loaded
  THEN [o EXCEPT !.store[o.callback[k].sid] = o.callback[k].session]
  ELSE o

\* no helper has been called
NoCall == [fn |-> "none", arg |-> Undef, out |-> NULL]

\* nothing has been handed to the vault
NoVault == [stage |-> "none", plain |-> <<>>, payload |-> <<>>,
            out |-> [ok |-> FALSE, text |-> <<>>, error |-> ""]]


(***************************************************************************)
(* Initial state: the schema just migrated, nobody enrolled.               *)
(***************************************************************************)
Init ==
  /\ now = ClockStart
  /\ tz \in TimeZones
  /\ advances = 0
  /\ members = {}
  /\ nextMemberId = 1
  /\ daily_metrics = {}
  /\ grant = [u \in Users |-> [gen |-> 0, live |-> FALSE]]
  /\ pass = [p \in PassIds |-> IdlePass]
  /\ passCount = 0
  /\ history = NoHistory
  /\ console = {}
  /\ env = GoodKey
  /\ listening = TRUE
  /\ vault = NoVault
  /\ call = NoCall
  /\ refresher = NoRefresher
  /\ client = NoClient
  /\ oauth = NoOAuth

(***************************************************************************)
(* Environment.                                                            *)
(***************************************************************************)
\* "Start server": app.listen(PORT, ...) at the end of the module
Listen ==
  /\ ~listening
  /\ listening' = TRUE
  /\ UNCHANGED <<env, vault, call, refresher, client, oauth, console, now, tz, advances, members, nextMemberId,
                 daily_metrics, grant, pass, passCount, history>>

\* time passes
Advance(d) ==
  /\ advances < MaxAdvances
  /\ \A p \in PassIds : pass[p].pc = "idle"
  /\ now' = now + d
  /\ advances' = advances + 1
  /\ UNCHANGED <<host, console, tz, members, nextMemberId, daily_metrics, grant, pass, passCount,
                 history>>

\* the account holder withdraws the application's access at the provider
RevokeGrant(u) ==
  /\ grant[u].live
  /\ \A p \in PassIds : pass[p].pc # "done"
  /\ grant' = [grant EXCEPT ![u].live = FALSE]
  /\ UNCHANGED <<host, console, now, tz, advances, members, nextMemberId, daily_metrics, pass, passCount,
                 history>>

\* an enrollment that inserts a row whether or not the account has one
InsertMember(mem, nextId, whoopUserId, displayName, enc) ==
  [ok |-> nextId <= MaxMemberId,
   members |-> mem \cup {[id |-> nextId, whoop_user_id |-> whoopUserId,
                          display_name |-> displayName, refresh_token_enc |-> enc,
                          last_refreshed_at |-> NULL]},
   nextId |-> nextId + 1]

\* "Upsert member by whoop_user_id": the row of the account is updated in place, or
\* a row is inserted under the next AUTOINCREMENT id (ok is FALSE where the model
\* has no further id)
UpsertMember(mem, nextId, whoopUserId, displayName, enc) ==
  LET existing == {m \in mem : m.whoop_user_id = whoopUserId}
  IN IF existing # {}
     THEN [ok |-> TRUE,
           members |-> {IF m \in existing
                        THEN [m EXCEPT !.display_name = displayName,
                                       !.refresh_token_enc = enc]
                        ELSE m : m \in mem},
           nextId |-> nextId]
     ELSE [ok |-> nextId <= MaxMemberId,
           members |-> mem \cup {[id |-> nextId, whoop_user_id |-> whoopUserId,
                                  display_name |-> displayName, refresh_token_enc |-> enc,
                                  last_refreshed_at |-> NULL]},
           nextId |-> nextId + 1]

\* GET /auth/callback with purpose 'enroll' for account u, whose profile gives
\* displayName: the provider issues a refresh token, the token response is
\* written to the console, and the member is upserted by whoop_user_id; when
\* encryptSecret throws the handler ends before the upsert
EnrollAs(u, displayName) ==
  /\ listening
  /\ grant[u].gen < MaxGen
  /\ \A p \in PassIds : pass[p].pc # "done"
  /\ \E iv \in StoreIvs :
       LET token == [user |-> u, gen |-> grant[u].gen + 1]
           enc == encryptSecret(TokenText(token), iv)
           up == UpsertMember(members, nextMemberId, u, displayName, enc.payload)
       IN /\ grant' = [grant EXCEPT ![u] = [gen |-> token.gen, live |-> TRUE]]
          /\ console' = console \cup {TokenText(token)}
          /\ IF ~enc.ok
             THEN UNCHANGED <<members, nextMemberId>>
             ELSE /\ up.ok
                  /\ members' = up.members
                  /\ nextMemberId' = up.nextId
  /\ UNCHANGED <<host, now, tz, advances, daily_metrics, pass, passCount, history>>

\* an enrollment of an account whose profile name is the account's own
Enroll(u) == EnrollAs(u, u)

\* the names the profile of account u may give at an enrollment
ProfileNames(u) == {u, u + 10}

\* the stored secret of account u's member is damaged where it is kept: a
\* character of the ciphertext part is changed ("flip"), or the payload loses its
\* ciphertext part ("truncate")
CorruptSecret(u, kind) ==
  /\ \E m \in members :
       /\ m.whoop_user_id = u
       /\ decryptSecret(m.refresh_token_enc).ok
       /\ LET payload == m.refresh_token_enc
              damaged == IF kind = "flip"
                         THEN [payload EXCEPT ![3][1] =
                                 ToBase64(<<(FromBase64(<<@>>)[1] + 1) % Base>>)[1]]
                         ELSE SubSeq(payload, 1, 2)
          IN members' = (members \ {m}) \cup {[m EXCEPT !.refresh_token_enc = damaged]}
  /\ UNCHANGED <<host, console, now, tz, advances, nextMemberId, daily_metrics, grant, pass,
                 passCount, history>>

\* POST /api/unlink by the holder of account u, whose access token the provider
\* has answered with the profile
Unlink(u) ==
  /\ listening
  /\ \A p \in PassIds : pass[p].pc # "done"
  /\ members' = deleteMemberByWhoopUserId(members, u)
  /\ daily_metrics' = Cascade(daily_metrics, members')
  /\ UNCHANGED <<host, console, now, tz, advances, nextMemberId, grant, pass, passCount,
                 history>>

\* POST /api/admin/remove-member with the admin secret and a body that names a
\* member_id (0: none) or else a whoop_user_id
AdminRemove(member_id, whoop_user_id) ==
  /\ listening
  /\ \A p \in PassIds : pass[p].pc # "done"
  /\ member_id # 0 \/ whoop_user_id # 0
  /\ members' = IF member_id # 0 THEN DeleteMemberById(members, member_id)
                ELSE deleteMemberByWhoopUserId(members, whoop_user_id)
  /\ daily_metrics' = Cascade(daily_metrics, members')
  /\ UNCHANGED <<host, console, now, tz, advances, nextMemberId, grant, pass, passCount,
                 history>>

(***************************************************************************)
(* The Secret Vault called on its own: a caller encrypts a plaintext, the  *)
(* payload may be altered where it is kept, and the caller decrypts it.    *)
(***************************************************************************)
Bytes == 0..(Base - 1)
PlainTexts == UNION {[1..n -> Bytes] : n \in 0..MaxPlainLen}
Ivs == {<<0>>, <<1>>}

\* encryptSecret(plainText), crypto.randomBytes having returned iv
VaultEncrypt(plainText, iv) ==
  /\ vault.stage = "none"
  /\ encryptSecret(plainText, iv).ok
  /\ vault' = [vault EXCEPT !.stage = "encrypted", !.plain = plainText,
                            !.payload = encryptSecret(plainText, iv).payload]
  /\ UNCHANGED <<env, listening, call, refresher, client, oauth, console, now, tz, advances, members, nextMemberId,
                 daily_metrics, grant, pass, passCount, history>>

\* one character of part n of the kept payload is changed
VaultTamper(n, i) ==
  /\ vault.stage = "encrypted"
  /\ n \in 1..Len(vault.payload)
  /\ i \in 1..Len(vault.payload[n])
  /\ vault' = [vault EXCEPT !.stage = "tampered",
                            !.payload[n][i] = ToBase64(<<(FromBase64(<<@>>)[1] + 1) % Base>>)[1]]
  /\ UNCHANGED <<env, listening, call, refresher, client, oauth, console, now, tz, advances, members, nextMemberId,
                 daily_metrics, grant, pass, passCount, history>>

\* decryptSecret(payload) returns or throws
VaultDecrypt ==
  /\ vault.stage \in {"encrypted", "tampered"}
  /\ vault' = [vault EXCEPT !.stage = IF vault.stage = "encrypted" THEN "decrypted"
                                      ELSE "checked",
                            !.out = decryptSecret(vault.payload)]
  /\ UNCHANGED <<env, listening, call, refresher, client, oauth, console, now, tz, advances, members, nextMemberId,
                 daily_metrics, grant, pass, passCount, history>>

(***************************************************************************)
(* The Recovery-Score Extractor called on its own, on payloads of the      *)
(* shape {k1: v1, k2: {k3: v3}}.                                           *)
(***************************************************************************)
ExtractKeys == {"recovery", "recoveryScore", "user_recovery", "score", "Score", "strain"}

\* 0.82, 1, 1.5, 55, 100, 101, 0, -0.5 and null
ExtractValues ==
  {Num(82), Num(Scale), Num(150), Num(55 * Scale), Num(100 * Scale), Num(101 * Scale),
   Num(0), Num(0 - 50), JNull}

ExtractInputs ==
  UNION {{Obj(<< <<k1, v1>>, <<k2, Obj(<< <<k3, v3>> >>)>> >>) :
            k1 \in ExtractKeys \ {k2}, k3 \in {"score", "recoveryScore", "strain"},
            v1 \in ExtractValues, v3 \in ExtractValues} :
         k2 \in {"recovery", "score", "data"}}

\* an object graph of n levels whose innermost object is {key: v}; the outer
\* levels are objects or arrays that hold the next level
RECURSIVE Deep(_, _, _, _)
Deep(n, wrap, key, v) ==
  IF n <= 1 THEN Obj(<< <<key, v>> >>)
  ELSE IF wrap = "obj" THEN Obj(<< <<"data", Deep(n - 1, wrap, key, v)>> >>)
  ELSE Arr(<<Deep(n - 1, wrap, key, v)>>)

DeepInputs ==
  {Deep(n, wrap, key, v) : n \in 1..MaxNest, wrap \in {"obj", "arr"},
                           key \in {"recovery_score", "score", "strain"},
                           v \in ExtractValues}

\* extractRecoveryScore(obj) with the default maxDepth
Extract(obj) ==
  /\ call.fn = "none"
  /\ call' = [fn |-> "extractRecoveryScore", arg |-> obj,
              out |-> extractRecoveryScore(obj, DefaultMaxDepth)]
  /\ UNCHANGED <<env, listening, vault, refresher, client, oauth, server>>

(***************************************************************************)
(* The Background Session Refresher's steps.                               *)
(***************************************************************************)
\* a caller starts background refresh for the session
StartRefresh(sessionId, refreshToken) ==
  /\ refresher.nextTimer <= MaxStarts
  /\ refresher' = [startTokenRefreshForSession(refresher, sessionId, refreshToken)
                     EXCEPT !.phase[sessionId] = "running"]
  /\ UNCHANGED <<env, listening, vault, call, client, oauth, server>>

\* a caller (POST /auth/logout) stops background refresh for the session
StopRefresh(sessionId) ==
  /\ refresher' = [stopTokenRefreshForSession(refresher, sessionId)
                     EXCEPT !.phase[sessionId] = IF @ = "never" THEN @ ELSE "stopped"]
  /\ UNCHANGED <<env, listening, vault, call, client, oauth, server>>

\* the interval fires: the callback calls refreshAccessToken(refreshToken) with
\* the closure's token and awaits the response
Tick(t) ==
  /\ t \in refresher.timers
  /\ refresher.ticks < MaxTicks
  /\ Cardinality(refresher.inflight) < MaxInFlight
  /\ refresher' =
       [refresher EXCEPT
          !.ticks = @ + 1,
          !.inflight = @ \cup
             {[interval |-> t, token |-> refresher.closures[t].refreshToken,
               n |-> refresher.ticks + 1,
               phase |-> refresher.phase[refresher.closures[t].sessionId]]}]
  /\ UNCHANGED <<env, listening, vault, call, client, oauth, server>>

\* the expiry computed from a token response: Date.now() + (expires_in || 1800) * 1000
ExpiryOf(expires_in) == now + (IF expires_in = 0 THEN 1800 ELSE expires_in) * 1000

\* the provider answers call c with an access token (named after the call), a
\* new refresh token (0: none) and expires_in: the callback's code after the await
TickOk(c, newRefresh, expires_in) ==
  LET t == c.interval
      sessionId == refresher.closures[t].sessionId
      refreshToken == refresher.closures[t].refreshToken
  IN /\ c \in refresher.inflight
     /\ refresher' =
          [refresher EXCEPT
             !.inflight = @ \ {c},
             !.activeSessions[sessionId] =
                [interval |-> t, accessToken |-> c.n,
                 refreshToken |-> IF newRefresh # 0 THEN newRefresh ELSE refreshToken,
                 tokenExpiry |-> ExpiryOf(expires_in)],
             !.closures[t].refreshToken = IF newRefresh # 0 THEN newRefresh ELSE @]
     /\ UNCHANGED <<env, listening, vault, call, client, oauth, server>>

\* refreshAccessToken throws for call c: the callback's catch block
TickFail(c) ==
  LET sessionId == refresher.closures[c.interval].sessionId
  IN /\ c \in refresher.inflight
     /\ refresher' =
          [stopTokenRefreshForSession([refresher EXCEPT !.inflight = @ \ {c}], sessionId)
             EXCEPT !.phase[sessionId] = "failed"]
     /\ UNCHANGED <<env, listening, vault, call, client, oauth, server>>

(***************************************************************************)
(* The OAuth flow's steps: login, and the callback one action per await.   *)
(***************************************************************************)
\* GET /auth/login, /join or /auth/test/:scopes in browser session sid
Login(sid) ==
  /\ oauth.nextState <= MaxStates
  /\ oauth' = [oauth EXCEPT !.store[sid] = oauth.nextState,
                            !.issued[sid] = oauth.nextState,
                            !.nextState = @ + 1]
  /\ UNCHANGED <<env, listening, vault, call, refresher, client, server>>

\* GET /auth/callback arrives in browser session sid: the handler up to its
\* first await
CallbackStart(k, sid, state, code, error) ==
  LET oauthState == oauth.store[sid]
      arrived == [IdleCallback EXCEPT !.sid = sid, !.state = state, !.code = code,
                                      !.error = error, !.loaded = oauthState,
                                      !.session = oauthState,
                                      !.issued = oauth.issued[sid],
                                      !.reused = ReturnedState(state) \in oauth.consumed[sid]]
  IN /\ oauth.callback[k].pc = "idle"
     /\ oauth' =
          [oauth EXCEPT !.callback[k] =
             IF error
             THEN [arrived EXCEPT !.pc = "done", !.status = 400,
                                  !.body = "OAuth authorization failed"]
             ELSE IF StateMismatch(ReturnedState(state), oauthState)
             THEN [arrived EXCEPT !.pc = "done", !.status = 400,
                                  !.body = "Invalid state parameter"]
             ELSE IF code = 0
             THEN [arrived EXCEPT !.pc = "done", !.status = 400,
                                  !.body = "Authorization code not provided"]
             ELSE [arrived EXCEPT !.pc = "exchange", !.exchanged = TRUE]]
     /\ UNCHANGED <<env, listening, vault, call, refresher, client, server>>

\* the token endpoint answers callback k's exchange: "ok" with access and
\* refresh token, "norefresh" with an access token only, "noaccess" with
\* neither, "fail" with an error
ExchangeAnswer(k, kind) ==
  LET cb == oauth.callback[k]
      u == cb.code
      token == [user |-> u, gen |-> grant[u].gen + 1]
      cleaned == [cb EXCEPT !.session = NULL]
      used == [oauth EXCEPT !.consumed[cb.sid] = @ \cup {ReturnedState(cb.state)}]
  IN /\ cb.pc = "exchange"
     /\ kind = "ok" => grant[u].gen < MaxGen
     /\ IF kind = "ok"
        THEN /\ grant' = [grant EXCEPT ![u] = [gen |-> token.gen, live |-> TRUE]]
             /\ console' = console \cup {TokenText(token)}
        ELSE UNCHANGED <<grant, console>>
     /\ oauth' =
          IF kind \in {"fail", "noaccess"}
          THEN [oauth EXCEPT !.callback[k] =
                  [cb EXCEPT !.pc = "done", !.status = 500,
                             !.body = "Failed to exchange authorization code"]]
          ELSE IF PurposeOf(cb.state) = "enroll"
          THEN IF kind = "norefresh"
               THEN SaveSession([used EXCEPT !.callback[k] =
                       [cleaned EXCEPT !.pc = "done", !.status = 400,
                                       !.body = "Enrollment requires offline access"]], k)
               ELSE [used EXCEPT !.callback[k] = [cleaned EXCEPT !.pc = "profile",
                                                                !.token = token]]
          ELSE SaveSession([used EXCEPT !.callback[k] =
                  [cleaned EXCEPT !.pc = "done", !.status = 200, !.tokensSent = TRUE,
                                  !.body = "Authentication Successful!"]], k)
     /\ UNCHANGED <<host_less_oauth, now, tz, advances, members, nextMemberId, daily_metrics,
                    pass, passCount, history>>

\* the profile request of an enrolling callback is answered: "ok" with the
\* account's id and displayName, "noid" without an id, "fail" with an error
ProfileAnswer(k, kind, displayName) ==
  LET cb == oauth.callback[k]
  IN /\ cb.pc = "profile"
     /\ \E iv \in StoreIvs :
          LET enc == encryptSecret(TokenText(cb.token), iv)
              up == UpsertMember(members, nextMemberId, cb.token.user, displayName,
                                 enc.payload)
              stored == kind = "ok" /\ enc.ok
          IN /\ IF stored
                THEN /\ up.ok
                     /\ members' = up.members
                     /\ nextMemberId' = up.nextId
                ELSE UNCHANGED <<members, nextMemberId>>
             /\ oauth' = SaveSession([oauth EXCEPT !.callback[k] =
                   IF stored
                   THEN [cb EXCEPT !.pc = "done", !.status = 302, !.wrote = TRUE,
                                   !.body = "/thanks"]
                   ELSE IF kind = "noid"
                   THEN [cb EXCEPT !.pc = "done", !.status = 500,
                                   !.body = "Failed to retrieve WHOOP user profile."]
                   ELSE [cb EXCEPT !.pc = "done", !.status = 500,
                                   !.body = "Failed to exchange authorization code"]], k)
     /\ UNCHANGED <<host_less_oauth, console, grant, now, tz, advances, daily_metrics,
                    pass, passCount, history>>

(***************************************************************************)
(* WhoopAuth's steps, one action per await.                                *)
(***************************************************************************)
\* init() on page load: checkAuthOnLoad, then startBackgroundRefresh
ClientInit ==
  /\ ~client.inited
  /\ client.page = "active"
  /\ client' = [(IF isAuthenticated(client)
                 THEN startBackgroundRefresh(client)
                 ELSE redirectToLogin(client)) EXCEPT !.inited = TRUE]
  /\ UNCHANGED <<env, listening, vault, call, refresher, oauth, server>>

\* the background interval fires: the callback up to its await
ClientTick(t) ==
  /\ t \in client.timers
  /\ client.page # "gone"
  /\ client.ticks < MaxClientTicks
  /\ client.nextRequest <= MaxRequests
  /\ client' = [(IF client.storage.refresh_token # 0
                 THEN clientRefreshToken(client, TickCaller).c
                 ELSE client) EXCEPT !.ticks = @ + 1]
  /\ UNCHANGED <<env, listening, vault, call, refresher, oauth, server>>

\* apiRequest(url, options) up to its first await: getValidAccessToken, which
\* returns the stored token, or awaits refreshToken(), or throws
ApiStart(a, retried) ==
  /\ client.api[a].pc = "idle"
  /\ client.page = "active"
  /\ client.inited
  /\ client.nextRequest <= MaxRequests
  /\ client' =
       IF client.storage.access_token = 0
       THEN [client EXCEPT !.api[a].pc = "failed"]
       ELSE IF ~isTokenExpired(client)
       THEN [client EXCEPT !.api[a] = [@ EXCEPT !.pc = "fetch1", !.retried = retried,
                                                !.sends = 1]]
       ELSE IF client.storage.refresh_token = 0
       THEN [redirectToLogin(clearTokens(client)) EXCEPT !.api[a].pc = "failed"]
       ELSE [clientRefreshToken(client, a).c EXCEPT
               !.api[a] = [@ EXCEPT !.pc = "token", !.retried = retried]]
  /\ UNCHANGED <<env, listening, vault, call, refresher, oauth, server>>

\* a retry that looks at every 401, the retried request's too
NeedsRetryAlways(pc, status, retried) == status = 401 /\ ~retried

\* "If we get a 401, try to refresh token once and retry": only the response of
\* the first request is looked at
NeedsRetry(pc, status, retried) == pc = "fetch1" /\ status = 401 /\ ~retried

\* the upstream request of apiRequest a is answered
ApiResponse(a, status) ==
  LET me == client.api[a]
      r == clientRefreshToken(client, a)
  IN /\ me.pc \in {"fetch1", "fetch2"}
     /\ client.page # "gone"
     /\ client.nextRequest <= MaxRequests
     /\ NeedsRetry(me.pc, status, me.retried) => me.sends < MaxSends
     /\ client' =
          IF ~NeedsRetry(me.pc, status, me.retried)
          THEN [client EXCEPT !.api[a] = [@ EXCEPT !.pc = "done", !.status = status]]
          ELSE IF r.thrown
          THEN [redirectToLogin(client) EXCEPT
                  !.api[a] = [@ EXCEPT !.pc = "failed", !.refreshes = @ + 1]]
          ELSE [r.c EXCEPT !.api[a] = [@ EXCEPT !.pc = "refresh", !.refreshes = @ + 1]]
     /\ UNCHANGED <<env, listening, vault, call, refresher, oauth, server>>

\* the access token a refresh response carries
AccessOf(req) == 100 + req.id

\* what the answer to request req leaves: _performTokenRefresh after its await
\* (kind "ok": 200 with expires_at; "noexpiry": 200 without; "fail": not ok, or
\* fetch rejected), refreshToken()'s finally, and then the continuation of every
\* apiRequest that awaited the promise
AfterAnswer(c, req, kind, rotate) ==
  LET settled == [c EXCEPT !.requests = @ \ {req},
                           !.waiters = {w \in @ : w[2] # req.id},
                           !.tokenRefreshPromise = 0]
      st == setTokens(settled, AccessOf(req),
                      IF rotate THEN req.token + 1 ELSE req.token,
                      IF kind = "ok" THEN now + 3600000 ELSE NULL)
      ok == kind # "fail" /\ ~st.thrown
      performed == IF kind = "fail" THEN clearTokens(settled)
                   ELSE IF st.thrown THEN clearTokens(st.c) ELSE st.c
      awaiting == {a \in ApiIds : <<a, req.id>> \in c.waiters}
      thrown == {a \in awaiting : ~ok}
      cleared == IF \E a \in thrown : c.api[a].pc = "token"
                 THEN clearTokens(performed) ELSE performed
      left == IF thrown # {} THEN redirectToLogin(cleared) ELSE cleared
  IN [left EXCEPT !.api =
        [a \in ApiIds |->
           IF a \notin awaiting THEN c.api[a]
           ELSE IF ~ok THEN [c.api[a] EXCEPT !.pc = "failed"]
           ELSE [c.api[a] EXCEPT !.pc = IF @ = "token" THEN "fetch1" ELSE "fetch2",
                                 !.sends = @ + 1]]]

\* the server (or the network) answers the refresh request req
RefreshAnswer(req, kind, rotate) ==
  /\ req \in client.requests
  /\ client.page # "gone"
  /\ client' = AfterAnswer(client, req, kind, rotate)
  /\ UNCHANGED <<env, listening, vault, call, refresher, oauth, server>>

\* logout() up to its await: stopBackgroundRefresh, then POST /auth/logout
LogoutStart ==
  /\ client.logout = "idle"
  /\ client.page = "active"
  /\ client.inited
  /\ client' = [stopBackgroundRefresh(client) EXCEPT !.logout = "posting"]
  /\ UNCHANGED <<env, listening, vault, call, refresher, oauth, server>>

\* the logout request is answered or fails: logout()'s catch and finally
LogoutAnswer(ok) ==
  /\ client.logout = "posting"
  /\ client.page # "gone"
  /\ client' = [redirectToLogin(clearTokens(client)) EXCEPT !.logout = "done"]
  /\ UNCHANGED <<env, listening, vault, call, refresher, oauth, server>>

\* the navigation started by redirectToLogin replaces the document: its timers
\* and pending requests are gone
PageUnload ==
  /\ client.page = "leaving"
  /\ client' = [client EXCEPT !.page = "gone", !.timers = {}, !.requests = {},
                              !.waiters = {}, !.tokenRefreshPromise = 0,
                              !.refreshIntervalId = 0]
  /\ UNCHANGED <<env, listening, vault, call, refresher, oauth, server>>

(***************************************************************************)
(* The aggregation pass, one action per await of the handler.              *)
(***************************************************************************)
\* the handler runs on from a response: pr, dm and mem are its locals and the
\* tables as the code before the next await leaves them
Resume(p, pr, dm, mem) ==
  LET r == Settle(pr, dm, mem)
  IN /\ pass' = [pass EXCEPT ![p] = r.pr]
     /\ daily_metrics' = r.dm
     /\ members' = mem

\* the condition the token endpoint reports for a dead grant: status 400 or 401
\* with an invalid-grant body
CredentialRejected(err) == err.status \in {400, 401} /\ err.error = "invalid_grant"

\* history: a request of the member in hand has failed; kept are the failures of
\* the first request of each metric class and, of a failed token refresh, whether
\* it was the credential-rejected condition
Failed(pr, ep, err) ==
  [pr EXCEPT !.failed = IF ep \in {"sleep", "recovery", "cycle"}
                        THEN @ \cup {<<pr.members[pr.i].id, ep>>} ELSE @,
             !.tokenErr = IF ep = "token"
                          THEN @ \cup {<<pr.members[pr.i].id, CredentialRejected(err)>>}
                          ELSE @]

\* the provider account the member in hand belongs to
Account(p) ==
  IF pass[p].i <= Len(pass[p].members) THEN pass[p].members[pass[p].i].whoop_user_id ELSE 0

\* GET /api/leaderboard?force=forceArg arrives
StartPass(p, forceArg) ==
  /\ listening
  /\ pass[p].pc = "idle"
  /\ passCount < MaxPasses
  /\ passCount' = passCount + 1
  /\ pass' = [pass EXCEPT ![p] =
                RunLoop([IdlePass EXCEPT !.forceArg = forceArg,
                                         !.members = SelectMembers(members)],
                        daily_metrics)]
  /\ UNCHANGED <<host, console, now, tz, advances, members, nextMemberId, daily_metrics, grant, history>>

\* await refreshAccessToken(refreshToken) returns tokenData
RefreshOk(p, rotate) ==
  LET pr == pass[p]
      m == pr.members[pr.i]
      t == pr.refreshToken
      fresh == IF rotate THEN [t EXCEPT !.gen = t.gen + 1] ELSE t
  IN /\ pr.pc = "refresh"
     /\ GrantValid(t)
     /\ rotate => t.gen < MaxGen
     /\ grant' = [grant EXCEPT ![t.user].gen = fresh.gen]
     /\ Resume(p, EnterSleep(pr), daily_metrics,
               IF fresh # t
               THEN UpdateMemberSecret(members, m.id,
                                       encryptSecret(TokenText(fresh),
                                                     CHOOSE iv \in StoreIvs : TRUE).payload)
               ELSE TouchMember(members, m.id))
     /\ history' = IF pr.needHourlyFetch THEN [history EXCEPT !.lastHourly[m.id] = now]
                   ELSE history
     /\ UNCHANGED <<host, console, now, tz, advances, nextMemberId, passCount>>

\* await refreshAccessToken(refreshToken) throws: the outer catch block
RefreshFail(p, err) ==
  LET pr == pass[p]
      m == pr.members[pr.i]
      mem == IF isInvalidGrant(err) THEN deleteMemberByWhoopUserId(members, m.whoop_user_id)
             ELSE members
      p1 == Failed(pr, "token", err)
  IN /\ pr.pc = "refresh"
     /\ err = InvalidGrant => ~GrantValid(pr.refreshToken)
     /\ pass' = [pass EXCEPT ![p] = RunLoop(PushBoards(CatchFallback(p1)),
                                            Cascade(daily_metrics, mem))]
     /\ members' = mem
     /\ daily_metrics' = Cascade(daily_metrics, mem)
     /\ UNCHANGED <<host, console, now, tz, advances, nextMemberId, grant, passCount, history>>

\* the sleep request returns
SleepOk(p, sleepResp) ==
  LET pr == pass[p]
      got == SleepFromPayload(sleepResp)
  IN /\ pr.pc = "sleep"
     /\ Resume(p,
               EnterRecovery(IF got.threw THEN pr
                             ELSE [pr EXCEPT !.sleepTotalSec = got.sleepTotalSec,
                                             !.sleepPerfPct = got.sleepPerfPct,
                                             !.sleepConsistencyPct = got.sleepConsistencyPct]),
               daily_metrics, members)
     /\ UNCHANGED <<host, console, now, tz, advances, nextMemberId, grant, passCount, history>>

\* the sleep request throws: "catch (_) { // ignore }"
\* the sleep request throws with no try around it: the error reaches the catch of
\* the member's iteration
SleepFailEscapes(p, err) ==
  LET pr == pass[p]
      m == pr.members[pr.i]
      mem == IF isInvalidGrant(err) THEN deleteMemberByWhoopUserId(members, m.whoop_user_id)
             ELSE members
  IN /\ pr.pc = "sleep"
     /\ pass' = [pass EXCEPT ![p] = RunLoop(PushBoards(CatchFallback(Failed(pr, "sleep", err))),
                                            Cascade(daily_metrics, mem))]
     /\ members' = mem
     /\ daily_metrics' = Cascade(daily_metrics, mem)
     /\ UNCHANGED <<host, console, now, tz, advances, nextMemberId, grant, passCount, history>>

SleepFail(p, err) ==
  /\ pass[p].pc = "sleep"
  /\ Resume(p, EnterRecovery(Failed(pass[p], "sleep", err)), daily_metrics, members)
  /\ UNCHANGED <<host, console, now, tz, advances, nextMemberId, grant, passCount, history>>

\* the recovery list request returns
RecoveryOk(p, recResp) ==
  LET pr == pass[p]
  IN /\ pr.pc = "recovery"
     /\ Resume(p, AfterRecoveryList([pr EXCEPT !.recoveryScore =
                                        RecoveryFromObject(FirstRecord(recResp))]),
               daily_metrics, members)
     /\ UNCHANGED <<host, console, now, tz, advances, nextMemberId, grant, passCount, history>>

\* the recovery list request throws
RecoveryFail(p, err) ==
  /\ pass[p].pc = "recovery"
  /\ Resume(p, AfterRecoveryList(Failed(pass[p], "recovery", err)), daily_metrics, members)
  /\ UNCHANGED <<host, console, now, tz, advances, nextMemberId, grant, passCount, history>>

\* the cycle request of the recovery block returns
RecoveryCycleOk(p, cycResp) ==
  LET pr == pass[p]
      c == FirstRecord(cycResp)
      recFromCycle == RecFromCycle(c)
  IN /\ pr.pc = "recovery_cycle"
     /\ Resume(p,
               IF ~Truthy(c) THEN EnterStrain(pr)
               ELSE IF IsFinite(recFromCycle)
               THEN EnterStrain([pr EXCEPT !.recoveryScore =
                                   TimesHundredIfFraction(recFromCycle)])
               ELSE IF ~Nullish(CycleIdOf(c))
               THEN [pr EXCEPT !.pc = "recovery_cycle_recovery"]
               ELSE EnterStrain(pr),
               daily_metrics, members)
     /\ UNCHANGED <<host, console, now, tz, advances, nextMemberId, grant, passCount, history>>

\* the cycle request of the recovery block throws
RecoveryCycleFail(p, err) ==
  /\ pass[p].pc = "recovery_cycle"
  /\ Resume(p, EnterStrain(Failed(pass[p], "recovery_cycle", err)), daily_metrics, members)
  /\ UNCHANGED <<host, console, now, tz, advances, nextMemberId, grant, passCount, history>>

\* the /cycle/{id}/recovery request of the recovery block returns
RecoveryCycleRecoveryOk(p, recObj) ==
  LET pr == pass[p]
      extracted2 == RecoveryFromObject(recObj)
  IN /\ pr.pc = "recovery_cycle_recovery"
     /\ Resume(p, EnterStrain(IF extracted2 # NULL
                              THEN [pr EXCEPT !.recoveryScore = extracted2] ELSE pr),
               daily_metrics, members)
     /\ UNCHANGED <<host, console, now, tz, advances, nextMemberId, grant, passCount, history>>

\* the /cycle/{id}/recovery request of the recovery block throws
RecoveryCycleRecoveryFail(p, err) ==
  /\ pass[p].pc = "recovery_cycle_recovery"
  /\ Resume(p, EnterStrain(Failed(pass[p], "recovery_cycle_recovery", err)),
            daily_metrics, members)
  /\ UNCHANGED <<host, console, now, tz, advances, nextMemberId, grant, passCount, history>>

\* the cycle request of the strain block returns
StrainOk(p, cycResp) ==
  LET pr == pass[p]
      c == FirstRecord(cycResp)
      strain == StrainOf(c)
      p1 == [pr EXCEPT !.strainScore = IF IsFinite(strain) THEN strain ELSE NULL]
      recFromCycle == RecFromCycle(c)
  IN /\ pr.pc = "strain"
     /\ Resume(p,
               IF pr.recoveryScore = NULL /\ Truthy(c)
               THEN IF IsFinite(recFromCycle)
                    THEN [p1 EXCEPT !.recoveryScore = recFromCycle, !.pc = "upsert"]
                    ELSE IF ~Nullish(CycleIdOf(c))
                    THEN [p1 EXCEPT !.pc = "strain_cycle_recovery"]
                    ELSE [p1 EXCEPT !.pc = "upsert"]
               ELSE [p1 EXCEPT !.pc = "upsert"],
               daily_metrics, members)
     /\ UNCHANGED <<host, console, now, tz, advances, nextMemberId, grant, passCount, history>>

\* the cycle request of the strain block throws
StrainFail(p, err) ==
  /\ pass[p].pc = "strain"
  /\ Resume(p, [Failed(pass[p], "cycle", err) EXCEPT !.pc = "upsert"], daily_metrics, members)
  /\ UNCHANGED <<host, console, now, tz, advances, nextMemberId, grant, passCount, history>>

\* the /cycle/{id}/recovery request of the strain block returns
StrainCycleRecoveryOk(p, recObj) ==
  LET pr == pass[p]
      score2 == ScoreOf(recObj)
  IN /\ pr.pc = "strain_cycle_recovery"
     /\ Resume(p, [pr EXCEPT !.recoveryScore = IF IsFinite(score2) THEN score2 ELSE @,
                             !.pc = "upsert"],
               daily_metrics, members)
     /\ UNCHANGED <<host, console, now, tz, advances, nextMemberId, grant, passCount, history>>

\* the /cycle/{id}/recovery request of the strain block throws
StrainCycleRecoveryFail(p, err) ==
  /\ pass[p].pc = "strain_cycle_recovery"
  /\ Resume(p, [Failed(pass[p], "strain_cycle_recovery", err) EXCEPT !.pc = "upsert"],
            daily_metrics, members)
  /\ UNCHANGED <<host, console, now, tz, advances, nextMemberId, grant, passCount, history>>

\* res.json({sleep, recovery, strain, date}) has been sent: the request is over
Respond(p) ==
  /\ pass[p].pc = "done"
  /\ pass' = [pass EXCEPT ![p] = IdlePass]
  /\ history' = [history EXCEPT !.prevFailed = pass[p].failed]
  /\ UNCHANGED <<host, console, now, tz, advances, members, nextMemberId, daily_metrics, grant, passCount>>

\* a response reaches pass p, from a provider whose payloads are drawn from the
\* given families (each a function from accounts to sets of payloads), or the
\* pass responds
Reply(p, Rotations, Sleeps, Recoveries, Cycles, CycleRecoveries) ==
  \/ \E rotate \in Rotations : RefreshOk(p, rotate)
  \/ \E err \in TransientRefreshErrors \cup {InvalidGrant} : RefreshFail(p, err)
  \/ \E sleepResp \in Sleeps[Account(p)] : SleepOk(p, sleepResp)
  \/ \E err \in ResourceErrors : SleepFail(p, err)
  \/ \E recResp \in Recoveries[Account(p)] : RecoveryOk(p, recResp)
  \/ \E err \in ResourceErrors : RecoveryFail(p, err)
  \/ \E cycResp \in Cycles[Account(p)] : RecoveryCycleOk(p, cycResp)
  \/ \E err \in ResourceErrors : RecoveryCycleFail(p, err)
  \/ \E recObj \in CycleRecoveries[Account(p)] : RecoveryCycleRecoveryOk(p, recObj)
  \/ \E err \in ResourceErrors : RecoveryCycleRecoveryFail(p, err)
  \/ \E cycResp \in Cycles[Account(p)] : StrainOk(p, cycResp)
  \/ \E err \in ResourceErrors : StrainFail(p, err)
  \/ \E recObj \in CycleRecoveries[Account(p)] : StrainCycleRecoveryOk(p, recObj)
  \/ \E err \in ResourceErrors : StrainCycleRecoveryFail(p, err)
  \/ Respond(p)

\* the provider answering in the documented v2 shapes only
V2Sleeps(u) == {Records(<<SleepRec(Num(SleepPerfOf(u)))>>)}
V2Recoveries(u) ==
  {Records(<<Obj(<< <<"cycle_id", Num(7 * Scale)>>,
                    <<"score", Obj(<< <<"recovery_score", Num(RecoveryOf(u) * Scale)>> >>)>> >>)>>)}
V2Cycles(u) ==
  {Records(<<Obj(<< <<"id", Num(7 * Scale)>>,
                    <<"score", Obj(<< <<"strain", Num(StrainOf100(u))>> >>)>> >>)>>)}
\* a provider whose strain for the day grows while the day goes on
DriftCycles(u) ==
  V2Cycles(u) \cup
  {Records(<<Obj(<< <<"id", Num(7 * Scale)>>,
                    <<"score", Obj(<< <<"strain", Num(StrainOf100(u) + 50)>> >>)>> >>)>>)}

V2CycleRecoveries(u) ==
  {Obj(<< <<"score", Obj(<< <<"recovery_score", Num(RecoveryOf(u) * Scale)>> >>)>> >>)}

\* a provider whose answers also come in other shapes: a recovery record with the
\* score as a direct field (150), one whose recovery.score is null, and a list
\* with no record
OddRecoveries(u) ==
  V2Recoveries(u) \cup
  {Records(<<Obj(<< <<"recovery_score", Num(150 * Scale)>> >>)>>),
   Records(<<Obj(<< <<"recovery", Obj(<< <<"score", JNull>> >>)>> >>)>>),
   Records(<<>>)}

\* a cycle record whose strain fields are null, and one with no strain and a
\* direct recovery_score (150)
OddCycles(u) ==
  V2Cycles(u) \cup
  {Records(<<Obj(<< <<"id", Num(7 * Scale)>>,
                    <<"cycle", Obj(<< <<"strain", JNull>> >>)>> >>)>>),
   Records(<<Obj(<< <<"id", Num(7 * Scale)>>,
                    <<"recovery_score", Num(150 * Scale)>> >>)>>)}

\* a cycle recovery with the score as a direct field (150), and an empty one
OddCycleRecoveries(u) ==
  V2CycleRecoveries(u) \cup {Obj(<< <<"score", Num(150 * Scale)>> >>), Obj(<<>>)}

\* a response from a provider that answers in the documented v2 shapes
V2Reply(p, Rotations) ==
  Reply(p, Rotations,
        [u \in 0..MaxUsers |-> V2Sleeps(u)], [u \in 0..MaxUsers |-> V2Recoveries(u)],
        [u \in 0..MaxUsers |-> V2Cycles(u)], [u \in 0..MaxUsers |-> V2CycleRecoveries(u)])

IdleAll == \A p \in PassIds : pass[p].pc = "idle"

(***************************************************************************)
(* Specifications.                                                         *)
(***************************************************************************)
\* one account against a server in any local zone: two passes, one clock advance,
\* re-enrollment and token rotation
Next ==
  \/ \E d \in ClockSteps : advances < ShortAdvances /\ Advance(d)
  \/ Enroll(1)
  \/ RevokeGrant(1)
  \/ \E p \in FirstPass, forceArg \in ForceArgs : passCount < ShortPasses /\ StartPass(p, forceArg)
  \/ \E p \in FirstPass : V2Reply(p, BOOLEAN)

Spec == Init /\ [][Next]_vars

\* one account, enrolled once, against a server whose local zone is UTC and a
\* provider that does not rotate: three passes, two clock advances
InitUTC == Init /\ tz = 0

NextUTC ==
  \/ \E d \in ClockSteps : Advance(d)
  \/ grant[1].gen = 0 /\ Enroll(1)
  \/ RevokeGrant(1)
  \/ \E p \in FirstPass, forceArg \in ForceArgs : StartPass(p, forceArg)
  \/ \E p \in FirstPass : V2Reply(p, {FALSE})

SpecUTC == InitUTC /\ [][NextUTC]_vars

\* two accounts, each enrolled once between passes, on a UTC server: two passes,
\* forced or not, with no time passing
NextTwo ==
  \/ \E u \in Users : grant[u].gen = 0 /\ IdleAll /\ Enroll(u)
  \/ \E u \in Users : IdleAll /\ RevokeGrant(u)
  \/ \E p \in FirstPass, forceArg \in {"", "all"} : passCount < ShortPasses /\ StartPass(p, forceArg)
  \/ \E p \in FirstPass : V2Reply(p, {FALSE})

SpecTwo == InitUTC /\ [][NextTwo]_vars

\* one account, enrolled once, on a UTC server, against a provider whose strain
\* drifts: two passes, one clock advance
NextMerge ==
  \/ \E d \in ClockSteps : advances < ShortAdvances /\ Advance(d)
  \/ grant[1].gen = 0 /\ Enroll(1)
  \/ \E p \in FirstPass, forceArg \in ForceArgs : passCount < ShortPasses /\ StartPass(p, forceArg)
  \/ \E p \in FirstPass :
       Reply(p, {FALSE},
             [u \in 0..MaxUsers |-> V2Sleeps(u)], [u \in 0..MaxUsers |-> V2Recoveries(u)],
             [u \in 0..MaxUsers |-> DriftCycles(u)],
             [u \in 0..MaxUsers |-> V2CycleRecoveries(u)])

SpecMerge == InitUTC /\ [][NextMerge]_vars

\* one account, enrolled once, on a UTC server whose provider may rotate: two
\* requests that may overlap, interleaved at their awaits
NextOverlap ==
  \/ grant[1].gen = 0 /\ Enroll(1)
  \/ \E p \in PassIds, forceArg \in {"", "all"} : passCount < ShortPasses /\ StartPass(p, forceArg)
  \/ \E p \in PassIds : V2Reply(p, BOOLEAN)

SpecOverlap == InitUTC /\ [][NextOverlap]_vars

\* one account that enrolls, re-enrolls, unlinks and is removed by the admin while
\* passes run, on a UTC server whose provider does not rotate
NextRemove ==
  \/ \E displayName \in ProfileNames(1) : EnrollAs(1, displayName)
  \/ RevokeGrant(1)
  \/ Unlink(1)
  \/ \E member_id \in 0..MaxMemberId, whoop_user_id \in {0, 1} :
       AdminRemove(member_id, whoop_user_id)
  \/ \E p \in FirstPass, forceArg \in {"", "all"} : passCount < ShortPasses /\ StartPass(p, forceArg)
  \/ \E p \in FirstPass : V2Reply(p, {FALSE})

SpecRemove == InitUTC /\ [][NextRemove]_vars

\* the vault alone under a well-formed key: any plaintext up to MaxPlainLen
\* bytes, any iv, any one-character change of the payload
InitVault ==
  /\ now = ClockStart /\ tz = 0 /\ advances = 0
  /\ members = {} /\ nextMemberId = 1 /\ daily_metrics = {}
  /\ grant = [u \in Users |-> [gen |-> 0, live |-> FALSE]]
  /\ pass = [p \in PassIds |-> IdlePass]
  /\ passCount = 0 /\ history = NoHistory /\ console = {}
  /\ env \in {GoodKey, KeyOf(KeyBytes, 2)}
  /\ listening = TRUE
  /\ vault = NoVault
  /\ call = NoCall
  /\ refresher = NoRefresher
  /\ client = NoClient
  /\ oauth = NoOAuth

NextVault ==
  \/ \E plainText \in PlainTexts, iv \in Ivs : VaultEncrypt(plainText, iv)
  \/ \E n \in 1..3, i \in 1..(MaxPlainLen + 2) : VaultTamper(n, i)
  \/ VaultDecrypt

SpecVault == InitVault /\ [][NextVault]_vars

\* the process from its start, under any value of ENCRYPTION_KEY: unset, empty,
\* a 16-byte key, a 32-byte key; one account enrolls once, two passes
EnvKeys == {NoKey, KeyOf(0, 0), KeyOf(16, 1), GoodKey}

InitBoot ==
  /\ now = ClockStart /\ tz = 0 /\ advances = 0
  /\ members = {} /\ nextMemberId = 1 /\ daily_metrics = {}
  /\ grant = [u \in Users |-> [gen |-> 0, live |-> FALSE]]
  /\ pass = [p \in PassIds |-> IdlePass]
  /\ passCount = 0 /\ history = NoHistory /\ console = {}
  /\ env \in EnvKeys
  /\ listening = FALSE
  /\ vault = NoVault
  /\ call = NoCall
  /\ refresher = NoRefresher
  /\ client = NoClient
  /\ oauth = NoOAuth

NextBoot ==
  \/ Listen
  \/ grant[1].gen = 0 /\ Enroll(1)
  \/ \E p \in FirstPass, forceArg \in {"", "all"} : passCount < ShortPasses /\ StartPass(p, forceArg)
  \/ \E p \in FirstPass : V2Reply(p, {FALSE})

SpecBoot == InitBoot /\ [][NextBoot]_vars

\* two accounts, each enrolled once between passes, on a UTC server; between
\* passes a stored secret may be damaged: two passes, forced or not
NextCorrupt ==
  \/ \E u \in Users : grant[u].gen = 0 /\ IdleAll /\ Enroll(u)
  \/ \E u \in Users, kind \in {"flip", "truncate"} : IdleAll /\ CorruptSecret(u, kind)
  \/ \E p \in FirstPass, forceArg \in {"", "all"} : passCount < ShortPasses /\ StartPass(p, forceArg)
  \/ \E p \in FirstPass : V2Reply(p, {FALSE})

SpecCorrupt == InitUTC /\ [][NextCorrupt]_vars

\* the Extractor alone, on every payload of ExtractInputs
NextExtract == \E obj \in ExtractInputs : Extract(obj)

SpecExtract == InitUTC /\ [][NextExtract]_vars

\* the Extractor alone, on payloads nested up to MaxNest levels
NextDepth == \E obj \in DeepInputs : Extract(obj)

SpecDepth == InitUTC /\ [][NextDepth]_vars

\* one account, enrolled once, on a UTC server, against a provider whose answers
\* come in several shapes, none of which carries a numeric 0: two passes
NextShapes ==
  \/ grant[1].gen = 0 /\ Enroll(1)
  \/ \E p \in FirstPass, forceArg \in {"", "all"} : passCount < ShortPasses /\ StartPass(p, forceArg)
  \/ \E p \in FirstPass :
       Reply(p, {FALSE},
             [u \in 0..MaxUsers |-> V2Sleeps(u)], [u \in 0..MaxUsers |-> OddRecoveries(u)],
             [u \in 0..MaxUsers |-> OddCycles(u)],
             [u \in 0..MaxUsers |-> OddCycleRecoveries(u)])

SpecShapes == InitUTC /\ [][NextShapes]_vars

\* the session refresher alone: starts, stops, ticks and the answers to the calls
\* in flight, in any order; a rotating provider answers a call made with token
\* k with the new refresh token k + 1
NextRefresher ==
  \/ \E sid \in SessionIds, refreshToken \in StartTokens : StartRefresh(sid, refreshToken)
  \/ \E sid \in SessionIds : StopRefresh(sid)
  \/ \E t \in TimerIds : Tick(t)
  \/ \E c \in refresher.inflight, rotate \in BOOLEAN, expires_in \in ExpiresIn :
       TickOk(c, IF rotate THEN c.token + 1 ELSE 0, expires_in)
  \/ \E c \in refresher.inflight : TickFail(c)

SpecRefresher == InitUTC /\ [][NextRefresher]_vars

\* what localStorage holds when a protected page loads: the tokens the callback
\* page stored (with or without a refresh token), tokens about to expire, or none
StoredAtLoad ==
  {[access_token |-> 1, refresh_token |-> 10, expiry |-> ClockStart + 3600000],
   [access_token |-> 1, refresh_token |-> 10, expiry |-> ClockStart + 60000],
   [access_token |-> 1, refresh_token |-> 0, expiry |-> ClockStart + 3600000],
   NoTokens}

InitClient ==
  /\ now = ClockStart /\ tz = 0 /\ advances = 0
  /\ members = {} /\ nextMemberId = 1 /\ daily_metrics = {}
  /\ grant = [u \in Users |-> [gen |-> 0, live |-> FALSE]]
  /\ pass = [p \in PassIds |-> IdlePass]
  /\ passCount = 0 /\ history = NoHistory /\ console = {}
  /\ env = GoodKey
  /\ listening = TRUE
  /\ vault = NoVault
  /\ call = NoCall
  /\ refresher = NoRefresher
  /\ client \in {[NoClient EXCEPT !.storage = st] : st \in StoredAtLoad}
  /\ oauth = NoOAuth

\* one page: init, ticks of the background timer, apiRequest calls, the answers to
\* the refresh and upstream requests, logout and the navigation away
NextClient ==
  \/ ClientInit
  \/ \E t \in client.timers : ClientTick(t)
  \/ \E a \in ApiIds, retried \in BOOLEAN : ApiStart(a, retried)
  \/ \E a \in ApiIds, status \in {200, 401, 500} : ApiResponse(a, status)
  \/ \E req \in client.requests, kind \in {"ok", "noexpiry", "fail"}, rotate \in BOOLEAN :
       RefreshAnswer(req, kind, rotate)
  \/ LogoutStart
  \/ \E ok \in BOOLEAN : LogoutAnswer(ok)
  \/ PageUnload

SpecClient == InitClient /\ [][NextClient]_vars

\* two browser sessions: logins, callbacks with any state, code and error
\* parameter, and the provider's answers to the exchange and profile requests
NextOAuth ==
  \/ \E sid \in WebSessions : Login(sid)
  \/ \E k \in CallbackIds, sid \in WebSessions, state \in StateParams, code \in {0, 1},
        error \in BOOLEAN : CallbackStart(k, sid, state, code, error)
  \/ \E k \in CallbackIds, kind \in {"ok", "norefresh", "noaccess", "fail"} :
       ExchangeAnswer(k, kind)
  \/ \E k \in CallbackIds, kind \in {"ok", "noid", "fail"} :
       \E displayName \in ProfileNames(1) : ProfileAnswer(k, kind, displayName)

SpecOAuth == InitUTC /\ [][NextOAuth]_vars

(***************************************************************************)
(* Properties.  The member a history entry is about is named by its id;    *)
(* the rank lists name a member by display_name.                           *)
(***************************************************************************)
\* the display name pass p read for member id mid
NameOf(p, mid) ==
  LET k == CHOOSE k \in 1..Len(pass[p].members) : pass[p].members[k].id = mid
  IN pass[p].members[k].display_name

Listed(board, name) == \E j \in 1..Len(board) : board[j].name = name
ListedWith(board, name, value) ==
  \E j \in 1..Len(board) : board[j].name = name /\ board[j].value = value

\* C1: in a non-forced pass a member whose row was updated at most 5 minutes ago
\* is served from the cache with no strain request, and a member whose row is
\* older than 5 minutes, or who has no row, is sent to the provider for strain.
C1_StrainStaleness ==
  \A p \in PassIds :
    pass[p].forceArg = "" =>
      \A o \in pass[p].obs : o.usedCache <=> (o.realAge <= staleStrainMs)

\* C2: in a non-forced pass, a member whose sleep/recovery class was last
\* requested from the provider more than 1 hour ago has that class fetched again,
\* whatever was refreshed for strain in between.
C2_HourlyWindow ==
  \A p \in PassIds :
    pass[p].forceArg = "" =>
      \A o \in pass[p].obs :
        (history.lastHourly[o.mid] # 0 /\ now - history.lastHourly[o.mid] > staleHourlyMs)
          => o.needHourlyFetch /\ ~o.usedCache

\* C3: a pass whose force argument names a metric class, or all, fetches that
\* class for every member it processes, whatever the age of the member's row.
C3_ForcedRefresh ==
  \A p \in PassIds :
    \A o \in pass[p].obs :
      /\ pass[p].forceArg \in {"strain", "sleep", "recovery", "all"} => ~o.usedCache
      /\ pass[p].forceArg \in {"sleep", "recovery", "all"} => o.needHourlyFetch

\* C4: in a non-forced pass no sleep request and no recovery request (list
\* endpoint, cycle fallback or the cycle's recovery sub-resource) is in flight for
\* a member whose row is older than 5 minutes and at most 1 hour old.
C4_HourlySkipped ==
  \A p \in PassIds :
    (pass[p].forceArg = ""
     /\ pass[p].pc \in {"sleep", "recovery", "recovery_cycle", "recovery_cycle_recovery",
                        "strain_cycle_recovery"})
      => \A o \in pass[p].obs :
           o.mid = pass[p].members[pass[p].i].id
             => ~(o.realAge > staleStrainMs /\ o.realAge <= staleHourlyMs)

\* the rows of daily_metrics that belong to member id mid
RowsOf(mid) == {r \in daily_metrics : r.member_id = mid}

\* C5: a member whose token refresh was answered with the invalid-grant
\* condition during a pass is in the members table no more, and neither is any
\* daily_metrics row of theirs, from the failure until the pass has completed.
C5_RejectedRemoved ==
  \A p \in PassIds :
    \A t \in pass[p].tokenErr :
      t[2] => (\A m \in members : m.id # t[1]) /\ RowsOf(t[1]) = {}

\* a pass has completed in which a member that had a row for the day was rejected
C5_Witness ==
  \E p \in PassIds :
    /\ pass[p].pc = "done"
    /\ \E t \in pass[p].tokenErr, o \in pass[p].obs :
         t[2] /\ o.mid = t[1] /\ o.realAge # Infinity

\* C6: a member whose token refresh was answered with the invalid-grant
\* condition during a pass is in none of the three rank lists that pass returns,
\* with or without a cached row.
C6_RejectedNotListed ==
  \A p \in PassIds :
    pass[p].pc = "done" =>
      \A t \in pass[p].tokenErr :
        t[2] => /\ ~Listed(pass[p].sleepBoard, NameOf(p, t[1]))
                /\ ~Listed(pass[p].recoveryBoard, NameOf(p, t[1]))
                /\ ~Listed(pass[p].strainBoard, NameOf(p, t[1]))

\* C7: a member whose token refresh failed in a pass with anything but the
\* credential-rejected condition (status 400/401 with an invalid-grant body)
\* keeps their members row.
C7_TransientKeepsMember ==
  \A p \in PassIds :
    \A t \in pass[p].tokenErr :
      ~t[2] => \E m \in members : m.id = t[1]

\* C8: a completed pass has processed every member it read, whatever failed for
\* the others: a member served from the cache is in each list its row has a
\* value for, and a member whose own requests all succeeded is in all three
\* lists with the provider's values.
C8_FailureIsolated ==
  \A p \in PassIds :
    pass[p].pc = "done" =>
      \A k \in 1..Len(pass[p].members) :
        LET m == pass[p].members[k]
            row == SelectCached(daily_metrics, m.id, todayStr)
            failedHere == (\E f \in pass[p].failed : f[1] = m.id)
                          \/ (\E t \in pass[p].tokenErr : t[1] = m.id)
        IN /\ \E o \in pass[p].obs : o.mid = m.id
           /\ \A o \in pass[p].obs :
                (o.mid = m.id /\ o.usedCache) =>
                  /\ row.sleep_perf_pct # NULL
                       => ListedWith(pass[p].sleepBoard, m.display_name, row.sleep_perf_pct)
                  /\ row.recovery_score # NULL
                       => ListedWith(pass[p].recoveryBoard, m.display_name, row.recovery_score)
                  /\ row.strain_score # NULL
                       => ListedWith(pass[p].strainBoard, m.display_name, row.strain_score)
           /\ \A o \in pass[p].obs :
                (o.mid = m.id /\ ~o.usedCache /\ o.needHourlyFetch /\ ~failedHere) =>
                  /\ ListedWith(pass[p].sleepBoard, m.display_name,
                                MathRound(SleepPerfOf(m.whoop_user_id)))
                  /\ ListedWith(pass[p].recoveryBoard, m.display_name,
                                RecoveryOf(m.whoop_user_id) * Scale)
                  /\ ListedWith(pass[p].strainBoard, m.display_name,
                                StrainOf100(m.whoop_user_id))

\* a pass over two members has completed in which the first member's token
\* refresh or sleep request failed and the second is in all three lists
C8_Witness ==
  \E p \in PassIds :
    /\ pass[p].pc = "done"
    /\ Len(pass[p].members) = 2
    /\ \/ \E t \in pass[p].tokenErr : t[1] = pass[p].members[1].id
       \/ <<pass[p].members[1].id, "sleep">> \in pass[p].failed
    /\ Listed(pass[p].sleepBoard, pass[p].members[2].display_name)
    /\ Listed(pass[p].recoveryBoard, pass[p].members[2].display_name)
    /\ Listed(pass[p].strainBoard, pass[p].members[2].display_name)

\* C9: in a completed pass, a member for whom the first request of a metric
\* class failed and whose row holds a value of that class is in that class's
\* rank list with that value.
C9_TransientFallback ==
  \A p \in PassIds :
    pass[p].pc = "done" =>
      \A f \in pass[p].failed :
        LET row == SelectCached(daily_metrics, f[1], todayStr)
            name == NameOf(p, f[1])
        IN /\ (f[2] = "sleep" /\ row.sleep_perf_pct # NULL)
                => ListedWith(pass[p].sleepBoard, name, row.sleep_perf_pct)
           /\ (f[2] = "recovery" /\ row.recovery_score # NULL)
                => ListedWith(pass[p].recoveryBoard, name, row.recovery_score)
           /\ (f[2] = "cycle" /\ row.strain_score # NULL)
                => ListedWith(pass[p].strainBoard, name, row.strain_score)

\* C10: a non-forced pass sends to the provider again, for the class, every
\* member for whom a request of that class failed in the pass before.
C10_RetriedNextPass ==
  \A p \in PassIds :
    pass[p].forceArg = "" =>
      \A o \in pass[p].obs, f \in history.prevFailed :
        f[1] = o.mid =>
          /\ ~o.usedCache
          /\ f[2] \in {"sleep", "recovery"} => o.needHourlyFetch
\* the metric columns of a daily_metrics row, and the handler's local bound to each
MetricColumns ==
  {"sleep_total_sec", "sleep_perf_pct", "sleep_consistency_pct", "recovery_score",
   "strain_score"}

Incoming(pr, col) ==
  CASE col = "sleep_total_sec" -> pr.sleepTotalSec
    [] col = "sleep_perf_pct" -> pr.sleepPerfPct
    [] col = "sleep_consistency_pct" -> pr.sleepConsistencyPct
    [] col = "recovery_score" -> pr.recoveryScore
    [] col = "strain_score" -> pr.strainScore

\* pass p is at an await for a resource of its last member
AtLastResource(pr) ==
  /\ pr.pc \notin {"idle", "done", "refresh"}
  /\ pr.i = Len(pr.members)

\* C11: no step of any pass turns a non-null metric column of a (member, date)
\* row back to null, and the upsert that ends a pass leaves in each column of the
\* member's row the incoming value when that is non-null and the value the
\* column had when the incoming value is null.
C11_MergeNonNull ==
  [][/\ \A r \in daily_metrics, r2 \in daily_metrics' :
          (r2.member_id = r.member_id /\ r2.date = r.date) =>
            \A col \in MetricColumns : r[col] # NULL => r2[col] # NULL
     /\ \A p \in PassIds :
          (AtLastResource(pass[p]) /\ pass'[p].pc = "done") =>
            LET mid == pass[p].members[pass[p].i].id
                olds == {r \in daily_metrics : r.member_id = mid /\ r.date = todayStr}
            IN \A r2 \in daily_metrics' :
                 r2.member_id = mid =>
                   \A col \in MetricColumns :
                     r2[col] = IF Incoming(pass'[p], col) # NULL
                               THEN Incoming(pass'[p], col)
                               ELSE IF olds = {} THEN NULL
                               ELSE (CHOOSE r \in olds : TRUE)[col]]_vars

\* a pass has completed whose upsert came with no sleep value and a strain value
\* that is not the stored one's first reading, on a row that keeps its sleep value
C11_Witness ==
  \E p \in PassIds :
    /\ pass[p].pc = "done"
    /\ pass[p].i > 0
    /\ pass[p].tokenErr = {}
    /\ \E o \in pass[p].obs : ~o.usedCache
    /\ pass[p].sleepPerfPct = NULL
    /\ pass[p].strainScore = StrainOf100(1) + 50
    /\ \E r \in daily_metrics :
         /\ r.sleep_perf_pct # NULL
         /\ r.strain_score = pass[p].strainScore

\* C12: there is at most one daily_metrics row per (member, date), also while
\* two passes overlap; the exists-check and the write of an upsert are one step
\* of the handler, so no write of another pass comes between them.
C12_SnapshotUnique ==
  \A r1 \in daily_metrics, r2 \in daily_metrics :
    (r1.member_id = r2.member_id /\ r1.date = r2.date) => r1 = r2

\* two passes have completed that overlapped: neither saw a row at its cache
\* check, both upserted, with different values, and there is a row
C12_Witness ==
  /\ \A p \in PassIds :
       /\ pass[p].pc = "done"
       /\ pass[p].tokenErr = {}
       /\ \E o \in pass[p].obs : o.realAge = Infinity
  /\ pass[1].sleepPerfPct # pass[2].sleepPerfPct
  /\ daily_metrics # {}

\* C13: every daily_metrics row refers to a member that exists, whatever
\* enrollments, passes, credential-rejection deletes, unlinks and admin removals
\* have happened: a delete by external id or by member id takes the member's
\* rows with it.
C13_RowsHaveMember ==
  \A r \in daily_metrics : \E m \in members : m.id = r.member_id

\* a member that had a row when a pass checked its cache has been unlinked or
\* removed by the admin while that pass was running
C13_Witness ==
  \E p \in PassIds :
    /\ pass[p].pc \notin {"idle", "done"}
    /\ pass[p].tokenErr = {}
    /\ \E o \in pass[p].obs :
         /\ o.realAge # Infinity
         /\ \A m \in members : m.id # o.mid
         /\ RowsOf(o.mid) = {}

\* the refresh token the members row of m holds
StoredToken(m) == ParseToken(decryptSecret(m.refresh_token_enc).text)

\* C14: while a resource fetch (sleep, recovery or cycle) of a member is in
\* flight, the token refresh of that member has been answered in this pass (the
\* row carries this pass's refresh time) and the row holds the refresh token the
\* provider now honours: a rotated secret was written before the first fetch.
C14_RotationPersistedFirst ==
  \A p \in PassIds :
    pass[p].pc \notin {"idle", "done", "refresh"} =>
      \A m \in members :
        m.id = pass[p].members[pass[p].i].id =>
          /\ m.last_refreshed_at = SqlNow
          /\ decryptSecret(m.refresh_token_enc).ok
          /\ StoredToken(m).gen = grant[m.whoop_user_id].gen

\* the sleep fetch of a member is in flight after a refresh that rotated the
\* token this pass had read
C14_Witness ==
  \E p \in PassIds :
    /\ pass[p].pc = "sleep"
    /\ \E m \in members :
         /\ m.id = pass[p].members[pass[p].i].id
         /\ StoredToken(m).gen = pass[p].refreshToken.gen + 1
         /\ TokenText(StoredToken(m)) \notin console

\* the members row holds a refresh token the provider honours
StoredValid(m) ==
  decryptSecret(m.refresh_token_enc).ok /\ GrantValid(StoredToken(m))

\* C15: with two passes overlapping against a provider that rotates refresh
\* tokens, an invalid-grant answer to a pass never comes while the member's
\* row holds a credential the provider honours: no pass removes a member whose
\* stored credential is valid.
C15_ValidNeverDeleted ==
  [][\A p \in PassIds :
       \A t \in pass'[p].tokenErr \ pass[p].tokenErr :
         t[2] => \A m \in members : m.id = t[1] => ~StoredValid(m)]_vars

\* C16: an enrollment leaves exactly one members row per external id; when the
\* account already has a row, that row keeps its id and its daily_metrics rows
\* and takes the new display name and the new encrypted secret, and no row is
\* added.
C16_EnrollUpsert ==
  [][\A u \in Users : \A displayName \in ProfileNames(u) :
       EnrollAs(u, displayName) =>
         /\ \A m1 \in members', m2 \in members' :
              m1.whoop_user_id = m2.whoop_user_id => m1 = m2
         /\ \A m \in members :
              m.whoop_user_id = u =>
                /\ \E m2 \in members' :
                     /\ m2.id = m.id
                     /\ m2.whoop_user_id = u
                     /\ m2.display_name = displayName
                     /\ m2.last_refreshed_at = m.last_refreshed_at
                     /\ TokenText([user |-> u, gen |-> grant'[u].gen])
                          = decryptSecret(m2.refresh_token_enc).text
                /\ {r \in daily_metrics' : r.member_id = m.id} = RowsOf(m.id)
                /\ Cardinality(members') = Cardinality(members)
                /\ nextMemberId' = nextMemberId]_vars

\* an account has enrolled twice, the second time under another name: its one
\* row has the first id, the new name and the second token, and its
\* daily_metrics row is still there
C16_Witness ==
  /\ nextMemberId = 2
  /\ Cardinality(console) = 2
  /\ \E m \in members :
       /\ m.id = 1
       /\ m.display_name = 11
       /\ StoredToken(m).gen = 2
       /\ RowsOf(1) # {}

\* the refresh tokens the provider has issued so far, as texts
IssuedTexts ==
  {TokenText([user |-> u, gen |-> g]) : u \in Users, g \in 1..MaxGen} \ {<<>>}

\* C17: after any enrollments and passes, no refresh token is in the members
\* table in plaintext (the column holds the vault's payload, none of whose parts
\* is the token or its base64 text) and none is in the process log.
C17_NoPlaintextToken ==
  \A text \in IssuedTexts :
    /\ \A m \in members :
         /\ m.refresh_token_enc # text
         /\ \A n \in 1..Len(m.refresh_token_enc) :
              m.refresh_token_enc[n] \notin {text, ToBase64(text)}
    /\ text \notin console

\* C18: decrypting what encryptSecret returned for a plaintext gives that
\* plaintext back, for every plaintext including the empty string.
C18_RoundTrip ==
  vault.stage = "decrypted" => (vault.out.ok /\ vault.out.text = vault.plain)

\* C19: a process whose encryption key is absent or not exactly 32 bytes never
\* listens: it accepts no enrollment callback and no aggregation request.
C19_RefusesToStart ==
  ~getKey(env).ok => (~listening /\ console = {} /\ passCount = 0)

\* the payload is well formed and its tag verifies under the process's key
Intact(payload) ==
  /\ Len(payload) = 3
  /\ \A n \in 1..3 : payload[n] # <<>>
  /\ getKey(env).ok
  /\ FromBase64(payload[2])
       = AuthTag(getKey(env).key, FromBase64(payload[1]), FromBase64(payload[3]))

\* C20: a member whose stored secret the pass cannot decrypt (malformed, or the
\* tag does not verify) has no token refresh and no resource request made for
\* them in that pass, nothing of the payload is sent as a refresh token, the
\* member is still in the members table when the pass completes, and the pass
\* has gone on through every member it read.
C20_SecretUnusable ==
  \A p \in PassIds :
    /\ pass[p].pc \notin {"idle", "done"} =>
         LET payload == pass[p].members[pass[p].i].refresh_token_enc
         IN /\ Intact(payload)
            /\ \A n \in 1..Len(payload) :
                 TokenText(pass[p].refreshToken) \notin {payload[n], FromBase64(payload[n])}
    /\ pass[p].pc = "done" =>
         \A k \in 1..Len(pass[p].members) :
           /\ \E o \in pass[p].obs : o.mid = pass[p].members[k].id
           /\ ~Intact(pass[p].members[k].refresh_token_enc) =>
                \E m \in members : m.id = pass[p].members[k].id

\* a pass has completed that met a member with a damaged secret outside the
\* cache and, after them, a member whose values it fetched and listed
C20_Witness ==
  \E p \in PassIds :
    /\ pass[p].pc = "done"
    /\ Len(pass[p].members) = 2
    /\ ~Intact(pass[p].members[1].refresh_token_enc)
    /\ \E o \in pass[p].obs : o.mid = pass[p].members[1].id /\ ~o.usedCache
    /\ Intact(pass[p].members[2].refresh_token_enc)
    /\ \E o \in pass[p].obs : o.mid = pass[p].members[2].id /\ ~o.usedCache
    /\ ListedWith(pass[p].strainBoard, pass[p].members[2].display_name,
                  StrainOf100(pass[p].members[2].whoop_user_id))

\* the numeric fields of o and of the objects nested in it, as <<key, value>>
RECURSIVE NumericFields(_)
NumericFields(o) ==
  IF ~IsObject(o) THEN {}
  ELSE LET es == Entries(o)
       IN UNION {IF es[i][2].t = "num" THEN {<<es[i][1], es[i][2].v>>}
                 ELSE NumericFields(es[i][2]) : i \in 1..Len(es)}

\* values in [0,1] scaled by 100
Normalized(v) == IF v >= 0 /\ v <= Scale THEN v * 100 ELSE v

\* the normalized values inside [0,100] of the fields whose key contains
\* "recovery", in any case, or is "score"
Plausible(o) ==
  {Normalized(f[2]) : f \in {g \in NumericFields(o) :
                                IncludesRecovery(ToLowerCase(g[1]))
                                \/ ToLowerCase(g[1]) = "score"}}
  \cap 0..(100 * Scale)

BoardValues(board) == {board[j].value : j \in 1..Len(board)}

\* C22: every recovery value in a daily_metrics row or in the recovery rank list
\* of a pass lies in [0,100], whichever lookup produced it.
C22_RecoveryInRange ==
  /\ \A r \in daily_metrics :
       r.recovery_score # NULL => (r.recovery_score >= 0 /\ r.recovery_score <= 100 * Scale)
  /\ \A p \in PassIds :
       \A v \in BoardValues(pass[p].recoveryBoard) : v >= 0 /\ v <= 100 * Scale

\* C23: against a provider none of whose payloads carries a numeric 0, a metric
\* class whose payloads have no numeric value (absent or null) stays unknown:
\* no recovery or strain is stored as 0 and no rank-list entry has value 0.
C23_UnknownNotZero ==
  /\ \A r \in daily_metrics : r.recovery_score # 0 /\ r.strain_score # 0
  /\ \A p \in PassIds :
       /\ 0 \notin BoardValues(pass[p].recoveryBoard)
       /\ 0 \notin BoardValues(pass[p].strainBoard)

IsDescending(board) ==
  \A j \in 1..Len(board), k \in 1..Len(board) : j < k => board[j].value >= board[k].value

\* C24: each of the three rank lists a pass returns is in descending order of
\* its value.
C24_BoardsDescending ==
  \A p \in PassIds :
    pass[p].pc = "done" =>
      /\ IsDescending(pass[p].sleepBoard)
      /\ IsDescending(pass[p].recoveryBoard)
      /\ IsDescending(pass[p].strainBoard)

\* a pass has completed that processed the member with the lower values first
\* and lists both members in all three lists
C24_Witness ==
  \E p \in PassIds :
    /\ pass[p].pc = "done"
    /\ Len(pass[p].members) = 2
    /\ pass[p].members[1].whoop_user_id = 1
    /\ Len(pass[p].sleepBoard) = 2
    /\ Len(pass[p].recoveryBoard) = 2
    /\ Len(pass[p].strainBoard) = 2
    /\ pass[p].strainBoard[1].value > pass[p].strainBoard[2].value

(***************************************************************************)
(* Background Session Refresher.                                           *)
(***************************************************************************)
\* the intervals that can still fire for the session
LiveTimers(sid) ==
  {t \in refresher.timers : refresher.closures[t].sessionId = sid}

\* C25: when a refresh tick of a session fails, the session's handle stays in
\* the registry with its fields unchanged and its timer stays registered.
C25_FailureKeepsHandle ==
  [][\A c \in refresher.inflight :
       TickFail(c) =>
         /\ refresher'.activeSessions = refresher.activeSessions
         /\ refresher'.timers = refresher.timers]_vars

\* C26: a session has a handle exactly from its start until the first stop or
\* failed tick, and no tick fires for a session whose renewal has failed.
C26_HandleLifecycle ==
  \A sid \in SessionIds :
    /\ Has(refresher, sid) <=> refresher.phase[sid] = "running"
    /\ \A c \in refresher.inflight :
         refresher.closures[c.interval].sessionId = sid => c.phase # "failed"

\* C27: after a successful tick the handle holds the new access token and
\* expiry, and the new refresh token if one came back, else the one it held; a
\* tick calls the provider with the refresh token the handle holds.
C27_RotationUsedNext ==
  [][/\ \A c \in refresher.inflight, rotate \in BOOLEAN, expires_in \in ExpiresIn :
          LET sid == refresher.closures[c.interval].sessionId
              newRefresh == IF rotate THEN c.token + 1 ELSE 0
              held == refresher.activeSessions[sid]
          IN TickOk(c, newRefresh, expires_in) =>
               /\ refresher'.activeSessions[sid].accessToken = c.n
               /\ refresher'.activeSessions[sid].tokenExpiry = ExpiryOf(expires_in)
               /\ refresher'.activeSessions[sid].refreshToken =
                    IF newRefresh # 0 THEN newRefresh
                    ELSE IF held # NoHandle THEN held.refreshToken ELSE c.token
     /\ \A t \in TimerIds :
          LET sid == refresher.closures[t].sessionId
          IN Tick(t) /\ Has(refresher, sid) =>
               refresher.closures[t].refreshToken = refresher.activeSessions[sid].refreshToken
    ]_vars

\* C28: no refresh call starts for a session after it was stopped and before
\* it is started again.
C28_NoCallAfterStop ==
  \A c \in refresher.inflight : c.phase = "running"

\* C29: stopping a session that has no handle changes nothing and does not
\* throw, and stopping twice leaves the state that stopping once leaves.
C29_StopIdempotent ==
  \A sid \in SessionIds :
    LET once == stopTokenRefreshForSession(refresher, sid)
    IN /\ ~once.raised
       /\ stopTokenRefreshForSession(once, sid) = once
       /\ ~Has(refresher, sid) => once = refresher

\* a caller has stopped the session after a tick of it: the handle is gone and
\* the call is still in flight
C29_Witness ==
  \E sid \in SessionIds :
    /\ refresher.phase[sid] = "stopped"
    /\ ~Has(refresher, sid)
    /\ refresher.inflight # {}

\* C30: a session is in the registry exactly when a live timer exists for it.
C30_RegistryIffTimer ==
  \A sid \in SessionIds : Has(refresher, sid) <=> LiveTimers(sid) # {}

\* the numeric fields of the objects in the first `levels` levels of o, o itself
\* being level 1
RECURSIVE FieldsWithin(_, _)
FieldsWithin(o, levels) ==
  IF ~IsObject(o) \/ levels < 1 THEN {}
  ELSE LET es == Entries(o)
       IN UNION {IF es[i][2].t = "num" THEN {<<es[i][1], es[i][2].v>>}
                 ELSE FieldsWithin(es[i][2], levels - 1) : i \in 1..Len(es)}

\* C34: extractRecoveryScore visits at most 4 levels of the payload, the
\* top-level object being level 1: what it returns is null or the normalized
\* value of a matching field within those levels, never of a deeper one.
C34_DepthFour ==
  call.fn = "extractRecoveryScore" =>
    \/ call.out = NULL
    \/ \E f \in FieldsWithin(call.arg, DefaultMaxDepth) :
         /\ IncludesRecovery(ToLowerCase(f[1])) \/ ToLowerCase(f[1]) = "score"
         /\ call.out = Normalized(f[2])

\* the members row of member id mid
MemberRow(mem, mid) == {m \in mem : m.id = mid}

\* C35: a member whose row was at most 5 minutes old when a non-forced pass
\* came to it is served from the cache, and no step of that pass changes the
\* member's members row or its daily_metrics rows.
C35_FreshFrame ==
  [][\A p \in PassIds :
       (pass'[p] # pass[p] /\ pass'[p].forceArg = "" /\ pass'[p].pc # "idle") =>
         \A o \in pass'[p].obs :
           o.realAge <= staleStrainMs =>
             /\ o.usedCache
             /\ MemberRow(members', o.mid) = MemberRow(members, o.mid)
             /\ RowsOf(o.mid)' = RowsOf(o.mid)]_vars

(***************************************************************************)
(* WhoopAuth.                                                              *)
(***************************************************************************)
\* C31: after a background refresh tick of the page fails, the stored access
\* token, refresh token and expiry are unchanged and isAuthenticated() is true.
C31_TickFailureKeepsTokens ==
  [][\A req \in client.requests :
       (<<TickCaller, req.id>> \in client.waiters /\ RefreshAnswer(req, "fail", FALSE)) =>
         /\ client'.storage = client.storage
         /\ isAuthenticated(client')]_vars

\* C32: once logout() has completed no background timer is registered and
\* localStorage holds no access token, refresh token or expiry.
C32_LogoutLeavesNothing ==
  client.logout = "done" =>
    /\ client.timers = {}
    /\ client.refreshIntervalId = 0
    /\ client.storage = NoTokens

(***************************************************************************)
(* The OAuth flow.                                                         *)
(***************************************************************************)
\* the callback's state is not the one the latest login of its session issued
BadState(cb) == ReturnedState(cb.state) # cb.issued

\* no token exchange, no tokens sent to the browser, no member written
NothingDone(cb) == ~cb.exchanged /\ ~cb.tokensSent /\ ~cb.wrote

\* C33 as stated: a callback goes on to the token exchange only with the state
\* its session's latest login issued; a missing, empty, wrong or other-session
\* state is answered 400 'Invalid state parameter' and nothing is done.
C33_StateValidated ==
  \A k \in CallbackIds :
    LET cb == oauth.callback[k]
    IN (cb.pc # "idle" /\ BadState(cb)) =>
         /\ cb.pc = "done" /\ cb.status = 400 /\ cb.body = "Invalid state parameter"
         /\ NothingDone(cb)

\* C33 as amended: such a callback is answered 400 and nothing is done; the
\* error is 'Invalid state parameter' unless the callback carries an error
\* parameter, which is answered 'OAuth authorization failed' first.
C33_StateValidatedAmended ==
  \A k \in CallbackIds :
    LET cb == oauth.callback[k]
    IN (cb.pc # "idle" /\ BadState(cb)) =>
         /\ cb.pc = "done" /\ cb.status = 400
         /\ cb.body = IF cb.error THEN "OAuth authorization failed"
                      ELSE "Invalid state parameter"
         /\ NothingDone(cb)

\* a callback with a code has presented, in a session that has logged in, the
\* state that the other session's login issued, and another callback with the
\* right state has gone on to the exchange
C33_Witness ==
  \E k \in CallbackIds, j \in CallbackIds :
    LET cb == oauth.callback[k]
    IN /\ cb.pc = "done" /\ ~cb.error /\ cb.code # 0
       /\ cb.issued # NULL
       /\ \E sid \in WebSessions \ {cb.sid} : ReturnedState(cb.state) = oauth.issued[sid]
       /\ oauth.callback[j].exchanged

\* C40: a callback that presents, with no error parameter, a state whose token
\* exchange has already succeeded in its session is answered 400 'Invalid
\* state parameter'.
C40_StateSingleUse ==
  \A k \in CallbackIds :
    LET cb == oauth.callback[k]
    IN (cb.pc # "idle" /\ cb.reused /\ ~cb.error) =>
         cb.pc = "done" /\ cb.status = 400 /\ cb.body = "Invalid state parameter"

\* C36: the aggregation pass deletes a member only in the step in which its token
\* refresh fails: a step of a pass that removes a member row starts at the refresh
\* request and records a token failure, and no failed resource read of whatever
\* status (sleep, recovery, cycle, cycle recovery) changes the members table
ResourcePcs ==
  {"sleep", "recovery", "recovery_cycle", "recovery_cycle_recovery", "strain",
   "strain_cycle_recovery"}

C36_OnlyRefreshRevokes ==
  [][\A p \in PassIds :
       pass'[p] # pass[p] =>
         /\ (\E m \in members : MemberRow(members', m.id) = {}) =>
               /\ pass[p].pc = "refresh"
               /\ pass'[p].tokenErr # pass[p].tokenErr
         /\ pass[p].pc \in ResourcePcs => members' = members]_vars

C36_Witness ==
  \E p \in PassIds : \E f \in pass[p].failed :
    /\ pass[p].pc = "done"
    /\ pass[p].tokenErr = {}
    /\ MemberRow(members, f[1]) # {}

\* C37: a session has at most one live timer, and the handle the registry holds
\* for a session names exactly that timer, also after the session was started
\* again while a call of its previous timer was in flight.
C37_OneTrackedTimer ==
  \A sid \in SessionIds :
    /\ Cardinality(LiveTimers(sid)) <= 1
    /\ Has(refresher, sid) => LiveTimers(sid) = {refresher.activeSessions[sid].interval}

\* the callers of refreshToken(): the apiRequest calls and the background tick
Callers == ApiIds \cup {TickCaller}

\* C38: at most one request to /api/auth/refresh is in flight; a refreshToken()
\* call made while one is in flight sends nothing and waits for that request,
\* all apiRequest calls waiting for a request see the same outcome, and a call
\* made when none is in flight sends a new request.
C38_SingleFlight ==
  /\ [](/\ Cardinality(client.requests) <= 1
        /\ \A req \in client.requests : client.tokenRefreshPromise = req.id
        /\ \A w \in client.waiters : \E req \in client.requests : w[2] = req.id
        /\ \A caller \in Callers :
             LET r == clientRefreshToken(client, caller)
             IN IF client.requests # {}
                THEN /\ ~r.thrown
                     /\ r.c.requests = client.requests
                     /\ <<caller, client.tokenRefreshPromise>> \in r.c.waiters
                ELSE client.storage.refresh_token # 0 =>
                       /\ ~r.thrown
                       /\ r.c.requests = {[id |-> client.nextRequest,
                                           token |-> client.storage.refresh_token]}
                       /\ <<caller, client.nextRequest>> \in r.c.waiters)
  /\ [][\A req \in client.requests, kind \in {"ok", "noexpiry", "fail"}, rotate \in BOOLEAN :
         RefreshAnswer(req, kind, rotate) =>
           LET awaiting == {a \in ApiIds : <<a, req.id>> \in client.waiters}
           IN \/ \A a \in awaiting : client'.api[a].pc = "failed"
              \/ \A a \in awaiting : client'.api[a].pc \in {"fetch1", "fetch2"}]_vars

\* a second request, started after the first was answered, with two callers
\* waiting for it
C38_Witness ==
  \E req \in client.requests :
    /\ req.id > 1
    /\ Cardinality({w \in client.waiters : w[2] = req.id}) >= 2

\* C39: one apiRequest call sends its upstream request at most twice and starts
\* at most one token refresh in answer to a 401; a 401 answer to the second
\* request ends the call with that response, with no refresh and no third request.
C39_RetryOnce ==
  /\ [](\A a \in ApiIds : client.api[a].sends <= 2 /\ client.api[a].refreshes <= 1)
  /\ [][\A a \in ApiIds :
         (client.api[a].pc = "fetch2" /\ ApiResponse(a, 401)) =>
           /\ client'.api[a] = [client.api[a] EXCEPT !.pc = "done", !.status = 401]
           /\ client'.requests = client.requests
           /\ client'.waiters = client.waiters
           /\ client'.storage = client.storage]_vars

\* a call whose first request was answered 401, that refreshed, sent the request
\* again and returned the second 401
C39_Witness ==
  \E a \in ApiIds :
    /\ client.api[a].pc = "done"
    /\ client.api[a].status = 401
    /\ client.api[a].sends = 2
    /\ client.api[a].refreshes = 1

====
